---------------------------- MODULE Spec2Model ----------------------------
(***************************************************************************)
(* Model of the simulation core of Social-Arena/Feed:                      *)
(*   - TrendDecayModel        (feed/simulation/trend_decay_model.py)       *)
(*   - EngagementSimulator    (feed/simulation/engagement_simulator.py)    *)
(*   - ViralityCalculator     (feed/simulation/viral_metrics.py)           *)
(*   - SessionManager         (feed/simulation/session_manager.py)         *)
(*                                                                         *)
(* Numbers.  Python floats are modelled as exact fixed-point integers:     *)
(*   - datetimes are integer clock ticks (the resolution of datetime);     *)
(*   - duration_hours values are multiples of 1/HourUnits of a tick, and   *)
(*     timedelta(hours=h) rounds them to whole ticks, half to even;        *)
(*   - momentum values are multiples of 1/MomentumUnit;                    *)
(*   - shock intensities are multiples of 1/IntensityDen.                  *)
(***************************************************************************)
EXTENDS Integers, Sequences, FiniteSets, TLC

VARIABLES
    now,            \* wall clock read by datetime.utcnow()
    config,         \* TrendDecayModel.config (TrendConfig)
    active_trends,  \* TrendDecayModel.active_trends : trend -> TrendLifecycle
    trend_history,  \* TrendDecayModel.trend_history : trend -> TrendLifecycle
    feed_metrics,   \* feed id -> public_metrics of the feeds handed to
                    \* apply_trend_shock
    nshocks,        \* number of apply_trend_shock calls made so far
    last,           \* the last call made and what it returned
    \* EngagementSimulator.simulate_engagement_wave
    wave_config,    \* EngagementSimulator.config (EngagementConfig)
    wave_feed,      \* the feed argument
    initial_exposure,   \* the initial_exposure argument
    wave_pc,        \* position in simulate_engagement_wave
    time_step,      \* loop variable of simulate_engagement_wave
    current_exposure,   \* local current_exposure
    wave_phases,    \* local wave_phases: the TimeStepEngagement snapshots
    wave,           \* the EngagementWave returned
    quality_result,     \* what _estimate_content_quality returned
    \* UserSession (session_manager and engagement_simulator)
    session_class,  \* the module whose UserSession class the session is
    session,        \* the UserSession object
    \* ViralityCalculator
    viral_feed,     \* the feed argument
    viral_context,  \* the ViralContext argument
    viral_result,   \* the last call made and what it returned
    engagement_timeline, \* the EngagementEvent list a calculator call is given
    \* SessionManager
    sessions,       \* the UserSession objects created so far, by identity
    active_sessions,    \* SessionManager.active_sessions : user_id -> object
    session_history,    \* SessionManager.session_history : SessionResults
    sim,            \* locals of the running simulate_content_consumption
    ncalls,         \* number of calls the caller has made so far
    mgr_last,       \* what the last simulate_content_consumption or
                    \* end_session call returned
    \* EngagementSimulator.simulate_user_session_engagement
    engagement_run, \* its arguments, its locals and what it returned
    \* the configuration dataclasses
    constructed,    \* the configuration object the last constructor call made
    \* SimulationFeedManager and the feed storage it inherits from FeedManager
    storage,        \* the storage directory: its listing and its feed files
    sfm_last,       \* what the last SimulationFeedManager call did
    created_viral_feed  \* the ViralFeed create_viral_feed returned

trendVars == <<now, config, active_trends, trend_history, feed_metrics, nshocks>>
waveVars == <<wave_config, wave_feed, initial_exposure, wave_pc, time_step,
              current_exposure, wave_phases, wave, quality_result>>
sessionVars == <<session_class, session>>
viralVars == <<viral_feed, viral_context, viral_result, engagement_timeline>>
managerVars == <<sessions, active_sessions, session_history, sim, ncalls,
                 mgr_last>>

\* what the operations of one component leave alone
runVars == <<engagement_run>>
configVars == <<constructed>>
storageVars == <<storage, sfm_last, created_viral_feed>>
outsideTrend == <<waveVars, sessionVars, viralVars, managerVars, runVars,
    configVars, storageVars>>
outsideWave == <<trendVars, last, sessionVars, viralVars, managerVars, runVars,
    configVars, storageVars>>
outsideSession == <<trendVars, last, waveVars, viralVars, managerVars, runVars,
    configVars, storageVars>>
outsideViral == <<trendVars, last, waveVars, sessionVars, managerVars, runVars,
    configVars, storageVars>>
outsideManager == <<trendVars, last, waveVars, sessionVars, viralVars, runVars,
    configVars, storageVars>>
outsideRun == <<trendVars, last, waveVars, sessionVars, viralVars, managerVars,
    configVars, storageVars>>

-----------------------------------------------------------------------------
(* Bounds of the model *)

MaxTime == 2            \* the clock runs from 0 to MaxTime
MaxShocks == 1          \* apply_trend_shock calls per behaviour
HourUnits == 3          \* duration_hours resolution: 1/HourUnits of a tick
IntensityDen == 5       \* shock_intensity resolution: 1/IntensityDen

TrendIds == {"ai", "news"}

\* the trends model_trend_lifecycle is called for ("news" stays unknown)
ModelledTrendIds == {"ai"}

\* shock_intensity arguments: 0.8, and the out-of-range -1.4
Intensities == {4, -7}

InitialMomenta == {10}

\* start_time argument of model_trend_lifecycle: None (= utcnow), or an
\* explicit datetime two ticks before the clock's origin
NoneTime == <<>>
StartTimes == {NoneTime, <<-2>>}

\* random.uniform(-0.1, 0.1) draws of the peak phase, in tenths, for even
\* and odd sample positions
Fluctuations == {<<-1, 1>>, <<1, 0>>}

\* TrendConfig instances (durations in 1/HourUnits of a tick): one whose
\* durations are whole ticks, one whose durations are not
Configs ==
    { [emergence_duration_hours |-> 3, growth_duration_hours |-> 6,
       peak_duration_hours |-> 3, decline_duration_hours |-> 3,
       tail_duration_hours |-> 3],
      [emergence_duration_hours |-> 1, growth_duration_hours |-> 1,
       peak_duration_hours |-> 2, decline_duration_hours |-> 2,
       tail_duration_hours |-> 4] }

-----------------------------------------------------------------------------
(* Arithmetic helpers *)

RECURSIVE Pow(_, _)
Pow(b, n) == IF n = 0 THEN 1 ELSE b * Pow(b, n - 1)

Max(a, b) == IF a >= b THEN a ELSE b
Min(a, b) == IF a <= b THEN a ELSE b

\* int(x) of Python for the rational n/d, d > 0: truncation toward zero
TruncDiv(n, d) == IF n >= 0 THEN n \div d ELSE -((-n) \div d)

\* rounding of n/d (d > 0) to the nearest integer, ties to even
RoundHalfEven(n, d) ==
    LET q == n \div d
        r == n % d
    IN  IF 2 * r < d THEN q
        ELSE IF 2 * r > d THEN q + 1
        ELSE IF q % 2 = 0 THEN q ELSE q + 1

\* max(s[1..n]) of a non-empty sequence
RECURSIVE SeqMaxTo(_, _)
SeqMaxTo(s, n) == IF n = 1 THEN s[1] ELSE Max(s[n], SeqMaxTo(s, n - 1))
SeqMax(s) == SeqMaxTo(s, Len(s))

\* timedelta(hours=h): a whole number of ticks
timedelta_hours(h) == RoundHalfEven(h, HourUnits)

\* momentum fixed point: a momentum value v is the integer
\* v * 1000 * MomentumScale; MomentumScale leaves room for MaxShocks exact
\* multiplications by (1 + intensity)
MomentumScale == Pow(IntensityDen, MaxShocks)
MomentumUnit == 1000 * MomentumScale

\* round(1000 * e^(i/10)), i = 0..30
ExpTab == <<1000, 1105, 1221, 1350, 1492, 1649, 1822, 2014, 2226, 2460,
            2718, 3004, 3320, 3669, 4055, 4482, 4953, 5474, 6050, 6686,
            7389, 8166, 9025, 9974, 11023, 12182, 13464, 14880, 16445,
            18174, 20086>>
math_exp_tenths(i) == ExpTab[i + 1]

\* round(1000 * (1 - log10(1 + 9*i/50))), i = 0..49
LogTail == <<1000, 928, 866, 812, 764, 721, 682, 646, 613, 582, 553, 526,
             500, 476, 453, 432, 411, 391, 373, 355, 337, 321, 305, 289,
             274, 260, 246, 232, 219, 206, 194, 182, 170, 159, 148, 137,
             126, 116, 106, 96, 86, 77, 68, 58, 50, 41, 32, 24, 16, 8>>

-----------------------------------------------------------------------------
(* TrendDecayModel: the five phases *)

EmergenceSteps == 20
GrowthSteps == 30
PeakSteps == 20
DeclineSteps == 30
TailSteps == 50

PhaseOrder == <<"emergence", "growth", "peak", "decline", "tail">>

TrendPhaseData(phase, start, end, duration, curve, mult) ==
    [phase |-> phase, start_time |-> start, end_time |-> end,
     duration_hours |-> duration, momentum_curve |-> curve,
     engagement_multiplier |-> mult]

\* momentum = initial_momentum * (1 + progress * 0.5), progress = i/steps
_model_emergence_phase(cfg, m, start_time) ==
    LET duration == cfg.emergence_duration_hours
        end_time == start_time + timedelta_hours(duration)
        curve == [k \in 1..EmergenceSteps |->
                    ((m * 1000 * (2 * EmergenceSteps + (k - 1)))
                        \div (2 * EmergenceSteps)) * MomentumScale]
    IN  TrendPhaseData("emergence", start_time, end_time, duration, curve, 11)

\* momentum = initial_momentum * 1.5 * e^(3 * i/30)
_model_growth_phase(cfg, m, start_time) ==
    LET phase_start == start_time + timedelta_hours(cfg.emergence_duration_hours)
        duration == cfg.growth_duration_hours
        end_time == phase_start + timedelta_hours(duration)
        curve == [k \in 1..GrowthSteps |->
                    ((m * 15 * math_exp_tenths(k - 1)) \div 10) * MomentumScale]
    IN  TrendPhaseData("growth", phase_start, end_time, duration, curve, 20)

\* momentum = initial_momentum * e^3 * 1.5 * (1 + uniform(-0.1, 0.1))
_model_peak_phase(cfg, m, start_time, fluct) ==
    LET previous_duration == cfg.emergence_duration_hours
                             + cfg.growth_duration_hours
        phase_start == start_time + timedelta_hours(previous_duration)
        duration == cfg.peak_duration_hours
        end_time == phase_start + timedelta_hours(duration)
        peak_momentum == (m * 15 * math_exp_tenths(30)) \div 10
        curve == [k \in 1..PeakSteps |->
                    ((peak_momentum * (10 + fluct[1 + ((k - 1) % 2)])) \div 10)
                        * MomentumScale]
    IN  TrendPhaseData("peak", phase_start, end_time, duration, curve, 30)

\* momentum = initial_momentum * e^3 * 1.5 * e^(-3 * i/30)
_model_decline_phase(cfg, m, start_time) ==
    LET previous_duration == cfg.emergence_duration_hours
                             + cfg.growth_duration_hours
                             + cfg.peak_duration_hours
        phase_start == start_time + timedelta_hours(previous_duration)
        duration == cfg.decline_duration_hours
        end_time == phase_start + timedelta_hours(duration)
        curve == [k \in 1..DeclineSteps |->
                    ((m * 15 * math_exp_tenths(30 - (k - 1))) \div 10)
                        * MomentumScale]
    IN  TrendPhaseData("decline", phase_start, end_time, duration, curve, 15)

\* momentum = max(initial * e^-3 * 1.5 * (1 - log10(1 + 9*i/50)), initial * 0.5)
_model_tail_phase(cfg, m, start_time) ==
    LET previous_duration == cfg.emergence_duration_hours
                             + cfg.growth_duration_hours
                             + cfg.peak_duration_hours
                             + cfg.decline_duration_hours
        phase_start == start_time + timedelta_hours(previous_duration)
        duration == cfg.tail_duration_hours
        end_time == phase_start + timedelta_hours(duration)
        \* e^-3 * 1.5 = 0.0747
        start_momentum == (m * 747) \div 10
        curve == [k \in 1..TailSteps |->
                    Max((start_momentum * LogTail[k]) \div 1000,
                        (m * 1000) \div 2) * MomentumScale]
    IN  TrendPhaseData("tail", phase_start, end_time, duration, curve, 10)

ModelPhases(cfg, m, start_time, fluct) ==
    << _model_emergence_phase(cfg, m, start_time),
       _model_growth_phase(cfg, m, start_time),
       _model_peak_phase(cfg, m, start_time, fluct),
       _model_decline_phase(cfg, m, start_time),
       _model_tail_phase(cfg, m, start_time) >>

TrendLifecycle(trend, phases, start_time) ==
    [trend |-> trend, phases |-> phases, start_time |-> start_time,
     current_phase |-> "emergence", total_mentions |-> 0,
     peak_momentum |->
        SeqMax([k \in 1..Len(phases) |-> SeqMax(phases[k].momentum_curve)])]

\* index of the first phase whose window contains t, 0 if there is none
ActivePhaseIndex(lifecycle, t) ==
    LET hits == {k \in 1..Len(lifecycle.phases) :
                    /\ lifecycle.phases[k].start_time <= t
                    /\ t < lifecycle.phases[k].end_time}
    IN  IF hits = {} THEN 0 ELSE CHOOSE k \in hits : \A j \in hits : k <= j

\* a get_current_momentum that keeps reporting the last sample of the last
\* phase once the lifecycle is over
get_current_momentum_Residual(lifecycle, current_time) ==
    LET k == ActivePhaseIndex(lifecycle, current_time)
        tail == lifecycle.phases[Len(lifecycle.phases)]
    IN  IF k = 0
        THEN IF current_time >= tail.end_time
             THEN tail.momentum_curve[Len(tail.momentum_curve)]
             ELSE 0
        ELSE LET phase_data == lifecycle.phases[k]
                 n == Len(phase_data.momentum_curve)
                 elapsed == (current_time - phase_data.start_time) * HourUnits
                 index == (elapsed * (n - 1)) \div phase_data.duration_hours
             IN  phase_data.momentum_curve[Min(index, n - 1) + 1]

\* TrendLifecycle.get_current_momentum
get_current_momentum(lifecycle, current_time) ==
    LET k == ActivePhaseIndex(lifecycle, current_time)
    IN  IF k = 0 THEN 0
        ELSE LET phase_data == lifecycle.phases[k]
                 n == Len(phase_data.momentum_curve)
                 elapsed == (current_time - phase_data.start_time) * HourUnits
                 index == (elapsed * (n - 1)) \div phase_data.duration_hours
             IN  phase_data.momentum_curve[Min(index, n - 1) + 1]


-----------------------------------------------------------------------------
(* The feed handed to apply_trend_shock *)

NoCount == <<>>     \* impression_count = None

\* text_contains: the trend names that occur in feed.text.lower();
\* hashtags: the lower-cased tags of feed.entities.hashtags
Feeds ==
    { [id |-> "f1", text_contains |-> {"ai"}, hashtags |-> {}],
      [id |-> "f2", text_contains |-> {}, hashtags |-> {"news", "viral"}] }

InitialFeedMetrics ==
    [f1 |-> [like_count |-> 41, retweet_count |-> 15, quote_count |-> 0,
             reply_count |-> 9, impression_count |-> <<1000>>],
     f2 |-> [like_count |-> 10, retweet_count |-> 5, quote_count |-> 1,
             reply_count |-> 2, impression_count |-> NoCount]]

\* TrendDecayModel._is_trend_relevant
_is_trend_relevant(feed, trend) ==
    \/ trend \in feed.text_contains
    \/ (feed.hashtags # {} /\ trend \in feed.hashtags)

\* int(count * (1 + intensity))
BoostCount(count, intensity) ==
    TruncDiv(count * (IntensityDen + intensity), IntensityDen)

\* TrendDecayModel._boost_content_virality
_boost_content_virality(metrics, intensity) ==
    [like_count |-> BoostCount(metrics.like_count, intensity),
     retweet_count |-> BoostCount(metrics.retweet_count, intensity),
     quote_count |-> BoostCount(metrics.quote_count, intensity),
     reply_count |-> BoostCount(metrics.reply_count, intensity),
     impression_count |->
        IF metrics.impression_count # NoCount /\ metrics.impression_count[1] # 0
        THEN <<BoostCount(metrics.impression_count[1], intensity)>>
        ELSE metrics.impression_count]

-----------------------------------------------------------------------------
(* TrendDecayModel: operations *)

\* dictionary helpers
Put(d, k, v) == [x \in DOMAIN d \cup {k} |-> IF x = k THEN v ELSE d[x]]
Del(d, k) == [x \in DOMAIN d \ {k} |-> d[x]]
EmptyDict == [x \in {} |-> 0]

\* [m * (1 + shock_intensity) for m in phase_data.momentum_curve]
ShockedCurve(curve, intensity) ==
    [s \in 1..Len(curve) |-> (curve[s] \div IntensityDen) * (IntensityDen + intensity)]

\* a shock that boosts every phase of the lifecycle, not only the active one
ShockedPhases_AllPhases(phases, current_time, intensity) ==
    [k \in 1..Len(phases) |->
        [phases[k] EXCEPT !.momentum_curve = ShockedCurve(@, intensity)]]

\* the loop of apply_trend_shock over lifecycle.phases, with its break
ShockedPhases(phases, current_time, intensity) ==
    LET hits == {k \in 1..Len(phases) :
                    phases[k].start_time <= current_time
                    /\ current_time < phases[k].end_time}
        first == IF hits = {} THEN 0
                 ELSE CHOOSE k \in hits : \A j \in hits : k <= j
    IN  [k \in 1..Len(phases) |->
            IF k = first
            THEN [phases[k] EXCEPT
                    !.momentum_curve = ShockedCurve(@, intensity)]
            ELSE phases[k]]

\* the engagement simulator is not in use
WaveIdle ==
    /\ wave_config = [simulation_duration |-> 0]
    /\ wave_feed = [id |-> "none"]
    /\ initial_exposure = 0
    /\ wave_pc = "idle"
    /\ time_step = 0
    /\ current_exposure = 0
    /\ wave_phases = <<>>
    /\ wave = [phases |-> <<>>]
    /\ quality_result = <<>>

\* no UserSession exists
SessionIdle ==
    /\ session_class = "none"
    /\ session = [user_id |-> "none"]

\* the virality calculator is not in use
ViralIdle ==
    /\ viral_feed = [id |-> "none"]
    /\ viral_context = [author_followers |-> 0]
    /\ viral_result = [op |-> "none"]
    /\ engagement_timeline = <<>>

\* no SessionManager exists
ManagerIdle ==
    /\ sessions = <<>>
    /\ active_sessions = [x \in {} |-> 0]
    /\ session_history = <<>>
    /\ sim = [pc |-> "none"]
    /\ ncalls = 0
    /\ mgr_last = [op |-> "none"]

\* no SimulationFeedManager is in use
StorageIdle ==
    /\ storage = [listing |-> "ok"]
    /\ sfm_last = [op |-> "none"]
    /\ created_viral_feed = [id |-> "none"]

\* no configuration object has been constructed
ConfigIdle == constructed = [class |-> "none"]

\* simulate_user_session_engagement is not in use
RunIdle == engagement_run = [pc |-> "none"]

TrendInit ==
    /\ StorageIdle
    /\ ConfigIdle
    /\ RunIdle
    /\ WaveIdle
    /\ SessionIdle
    /\ ViralIdle
    /\ ManagerIdle
    /\ now = 0
    /\ config \in Configs
    /\ active_trends = EmptyDict
    /\ trend_history = EmptyDict
    /\ feed_metrics = InitialFeedMetrics
    /\ nshocks = 0
    /\ last = [op |-> "none"]

\* time passes between two calls
Tick ==
    /\ now < MaxTime
    /\ now' = now + 1
    /\ last' = [op |-> "none"]
    /\ UNCHANGED <<config, active_trends, trend_history, feed_metrics, nshocks>>
    /\ UNCHANGED outsideTrend

\* TrendDecayModel.model_trend_lifecycle
ModelTrendLifecycle(trend, initial_momentum, start_arg, fluct) ==
    LET start_time == IF start_arg = NoneTime THEN now ELSE start_arg[1]
        phases == ModelPhases(config, initial_momentum, start_time, fluct)
        lifecycle == TrendLifecycle(trend, phases, start_time)
    IN  /\ active_trends' = Put(active_trends, trend, lifecycle)
        /\ last' = [op |-> "none"]
        /\ UNCHANGED <<now, config, trend_history, feed_metrics, nshocks>>
        /\ UNCHANGED outsideTrend

\* TrendDecayModel.apply_trend_shock
ApplyTrendShock(trend, shock_intensity, affected_feeds) ==
    LET boosted == {f \in affected_feeds : _is_trend_relevant(f, trend)}
        shock == [trend |-> trend, intensity |-> shock_intensity,
                  start_time |-> now, duration |-> 6 * HourUnits,
                  affected_content |-> {f.id : f \in boosted},
                  momentum_boost |-> shock_intensity * 1000]
    IN  /\ nshocks < MaxShocks
        /\ nshocks' = nshocks + 1
        /\ feed_metrics' =
              [id \in DOMAIN feed_metrics |->
                 IF \E f \in boosted : f.id = id
                 THEN _boost_content_virality(feed_metrics[id], shock_intensity)
                 ELSE feed_metrics[id]]
        /\ active_trends' =
              IF trend \in DOMAIN active_trends
              THEN [active_trends EXCEPT
                      ![trend].phases = ShockedPhases(@, now, shock_intensity)]
              ELSE active_trends
        /\ last' = [op |-> "apply_trend_shock", result |-> shock]
        /\ UNCHANGED <<now, config, trend_history>>
        /\ UNCHANGED outsideTrend

\* an archive_trend that copies the lifecycle but forgets the del
ArchiveTrend_NoDelete(trend) ==
    /\ IF trend \in DOMAIN active_trends
       THEN /\ trend_history' = Put(trend_history, trend, active_trends[trend])
            /\ active_trends' = active_trends
       ELSE UNCHANGED <<active_trends, trend_history>>
    /\ last' = [op |-> "archive_trend", trend |-> trend]
    /\ UNCHANGED <<now, config, feed_metrics, nshocks>>
    /\ UNCHANGED outsideTrend

\* TrendDecayModel.archive_trend
ArchiveTrend(trend) ==
    /\ IF trend \in DOMAIN active_trends
       THEN /\ trend_history' = Put(trend_history, trend, active_trends[trend])
            /\ active_trends' = Del(active_trends, trend)
       ELSE UNCHANGED <<active_trends, trend_history>>
    /\ last' = [op |-> "archive_trend", trend |-> trend]
    /\ UNCHANGED <<now, config, feed_metrics, nshocks>>
    /\ UNCHANGED outsideTrend

TrendNext ==
    \/ Tick
    \/ \E trend \in ModelledTrendIds, m \in InitialMomenta, st \in StartTimes,
          fl \in Fluctuations : ModelTrendLifecycle(trend, m, st, fl)
    \/ \E trend \in TrendIds, i \in Intensities :
          ApplyTrendShock(trend, i, Feeds)
    \/ \E trend \in TrendIds : ArchiveTrend(trend)

vars == <<trendVars, last, waveVars, sessionVars, viralVars, managerVars,
          runVars, configVars, storageVars>>

Spec == TrendInit /\ [][TrendNext]_vars

-----------------------------------------------------------------------------
(* TrendDecayModel: queries *)

\* the optional mention_count / engagement_sum arguments of
\* calculate_trend_momentum: None, or a count
MentionCounts == {NoCount, <<0>>, <<3>>}
EngagementSums == {NoCount, <<6>>}

\* TrendDecayModel.calculate_trend_momentum with the default time_window of
\* one hour; the float returned, in 1/MomentumUnit
calculate_trend_momentum(trend, mention_count, engagement_sum) ==
    IF trend \in DOMAIN active_trends
    THEN get_current_momentum(active_trends[trend], now)
    ELSE IF mention_count # NoCount /\ engagement_sum # NoCount
         \* (mention_count * (engagement_sum / max(mention_count, 1))) / 1.0
         THEN (mention_count[1] * engagement_sum[1] * MomentumUnit)
                  \div Max(mention_count[1], 1)
         \* default low momentum if no data
         ELSE MomentumUnit

\* TrendDecayModel.get_trend_phase with current_time = None
get_trend_phase(trend) ==
    IF trend \notin DOMAIN active_trends THEN "emergence"
    ELSE LET lifecycle == active_trends[trend]
             k == ActivePhaseIndex(lifecycle, now)
         IN  IF k = 0 THEN "tail" ELSE lifecycle.phases[k].phase

CalculateTrendMomentum(trend, mention_count, engagement_sum) ==
    /\ last' = [op |-> "calculate_trend_momentum", trend |-> trend,
                result |-> calculate_trend_momentum(trend, mention_count,
                                                    engagement_sum)]
    /\ UNCHANGED trendVars
    /\ UNCHANGED outsideTrend

GetTrendPhase(trend) ==
    /\ last' = [op |-> "get_trend_phase", trend |-> trend,
                result |-> get_trend_phase(trend)]
    /\ UNCHANGED trendVars
    /\ UNCHANGED outsideTrend

TrendQueryNext ==
    \/ TrendNext
    \/ \E trend \in TrendIds, mention_count \in MentionCounts,
          engagement_sum \in EngagementSums :
          CalculateTrendMomentum(trend, mention_count, engagement_sum)
    \/ \E trend \in TrendIds : GetTrendPhase(trend)

\* the TrendDecayModel with its queries
SpecTrendQueries == TrendInit /\ [][TrendQueryNext]_vars


-----------------------------------------------------------------------------
(* EngagementSimulator.simulate_engagement_wave *)

MaxDuration == 3        \* simulation_duration runs over 1..MaxDuration hours

\* time_step_hours of the configurations
TimeStepHours == {1, 2}

\* decay_rate of the configurations, in percent: 0.1 (default), 1.0, 1.5
DecayRates == {10, 100, 150}

\* the initial_exposure arguments
InitialExposures == {0, 50, 1000, 3000}

\* random.uniform(0.8, 1.2) draws, in tenths
Jitters == {8, 10, 12}

WaveConfigs ==
    [simulation_duration : 1..MaxDuration,
     base_engagement_rate : {3000},        \* 0.03, in 1/100000
     decay_rate : DecayRates,
     time_step_hours : TimeStepHours]

\* created_at_ok: datetime.fromisoformat accepts feed.created_at;
\* created_hour: its hour of day; text_news: "news" or "breaking" occurs in
\* the text; hashtags: the lower-cased tags; metrics: feed.public_metrics
WaveFeeds ==
    { [id |-> "w1", created_at_ok |-> TRUE, created_hour |-> 9,
       text_news |-> FALSE, hashtags |-> {},
       metrics |-> [like_count |-> 0, retweet_count |-> 0, quote_count |-> 0,
                    reply_count |-> 0, impression_count |-> NoCount]],
      [id |-> "w2", created_at_ok |-> TRUE, created_hour |-> 22,
       text_news |-> FALSE, hashtags |-> {"viral"},
       metrics |-> [like_count |-> 41, retweet_count |-> 15, quote_count |-> 0,
                    reply_count |-> 9, impression_count |-> <<1000>>]],
      [id |-> "w3", created_at_ok |-> TRUE, created_hour |-> 13,
       text_news |-> TRUE, hashtags |-> {"ai"},
       metrics |-> [like_count |-> 10, retweet_count |-> 5, quote_count |-> 1,
                    reply_count |-> 2, impression_count |-> <<0>>]],
      [id |-> "w4", created_at_ok |-> FALSE, created_hour |-> 0,
       text_news |-> FALSE, hashtags |-> {},
       metrics |-> [like_count |-> 0, retweet_count |-> 0, quote_count |-> 0,
                    reply_count |-> 0, impression_count |-> NoCount]] }

\* round(1000 * e^(-age/half_life)) for age = 0..8 hours
DecayTab6 == <<1000, 846, 717, 607, 513, 435, 368, 311, 264>>
DecayTab24 == <<1000, 959, 920, 882, 846, 812, 779, 747, 717>>
DecayTab48 == <<1000, 979, 959, 939, 920, 901, 882, 864, 846>>

\* the half-life TimeDynamics.calculate_time_decay selects, in hours
HalfLife(feed) ==
    IF feed.text_news THEN 6
    ELSE IF feed.hashtags # {}
         THEN IF feed.hashtags \cap {"viral", "trending", "breaking"} # {}
              THEN 48 ELSE 24
         ELSE 24

\* TimeDynamics.calculate_time_decay, in 1/1000, for an age in whole hours
calculate_time_decay(feed, age_hours) ==
    IF ~feed.created_at_ok THEN 500
    ELSE LET hl == HalfLife(feed)
             tab == IF hl = 6 THEN DecayTab6
                    ELSE IF hl = 48 THEN DecayTab48 ELSE DecayTab24
         IN  tab[age_hours + 1]

\* TimeDynamics.get_hourly_activity_multiplier, in tenths
activity_pattern == <<2, 1, 1, 1, 1, 2, 4, 7, 9, 10, 10, 10,
                      8, 10, 10, 10, 8, 7, 8, 10, 10, 10, 7, 4>>
get_hourly_activity_multiplier(hour) ==
    IF hour \in 0..23 THEN activity_pattern[hour + 1] ELSE 5

\* EngagementSimulator._estimate_content_quality, in 1/1000
_estimate_content_quality(feed) ==
    LET total_engagement == feed.metrics.like_count + feed.metrics.retweet_count
                            + feed.metrics.quote_count + feed.metrics.reply_count
        impressions == IF feed.metrics.impression_count # NoCount
                          /\ feed.metrics.impression_count[1] # 0
                       THEN feed.metrics.impression_count[1] ELSE 1000
        \* 0.5 + engagement_rate / 0.02
        quality == 500 + (50000 * total_engagement) \div impressions
    IN  Max(500, Min(quality, 2000))

\* int(t * 0.7) falls one short of floor(7t/10) when 7t/10 is a whole number
\* and the double nearest to t * 0.6999999999999999556 lies below it
FloatBelowWhole70(t) ==
    /\ t % 10 = 0
    /\ \E k \in 0..20 : 5 * Pow(2, k) < 4 * t /\ 7 * t <= 10 * Pow(2, k)

\* int(total_engaged * 0.7), int(total_engaged * 0.15), ... for total >= 0
IntLikes(total) == (7 * total) \div 10 - (IF FloatBelowWhole70(total) THEN 1 ELSE 0)
IntRetweets(total) == (15 * total) \div 100
IntQuotes(total) == (5 * total) \div 100
IntReplies_RoundUp(total) == (10 * total + 99) \div 100
IntReplies(total) == (10 * total) \div 100

\* EngagementSimulator._simulate_time_step_engagement; jitter is the
\* random.uniform(0.8, 1.2) draw in tenths
_simulate_time_step_engagement(cfg, feed, exposure, step, jitter) ==
    LET age == step * cfg.time_step_hours
        time_decay == calculate_time_decay(feed, age)
        hour_multiplier ==
            get_hourly_activity_multiplier((feed.created_hour + age) % 24)
        content_quality == _estimate_content_quality(feed)
        \* effective_rate in 1/100000
        effective_rate ==
            (((((cfg.base_engagement_rate * time_decay) \div 1000)
                * hour_multiplier) \div 10) * content_quality) \div 1000
        total_engaged == TruncDiv(exposure * effective_rate * jitter, 1000000)
    IN  [time_step |-> step,
         timestamp |-> age,
         exposure |-> exposure,
         likes |-> IntLikes(total_engaged),
         retweets |-> IntRetweets(total_engaged),
         quotes |-> IntQuotes(total_engaged),
         replies |-> IntReplies(total_engaged),
         total_engagement |-> total_engaged]

\* the minimum exposure of _update_exposure
ExposureFloor == 100

\* EngagementSimulator._update_exposure
_update_exposure(cfg, engagement, exposure) ==
    LET shares == engagement.retweets + engagement.quotes
        new_exposure == shares * 30
        updated_exposure ==
            TruncDiv((exposure + new_exposure) * (100 - cfg.decay_rate), 100)
    IN  Max(updated_exposure, ExposureFloor)

\* a step count that rounds the quotient up
NumSteps_RoundedUp(cfg) ==
    (cfg.simulation_duration + cfg.time_step_hours - 1) \div cfg.time_step_hours

\* range(int(simulation_duration / time_step_hours))
NumSteps(cfg) == cfg.simulation_duration \div cfg.time_step_hours

\* sum(p.exposure for p in wave_phases), over the first n phases
RECURSIVE SumExposure(_, _)
SumExposure(s, n) == IF n = 0 THEN 0 ELSE s[n].exposure + SumExposure(s, n - 1)

\* sum(p.total_engagement for p in wave_phases), over the first n phases
RECURSIVE SumEngagement(_, _)
SumEngagement(s, n) ==
    IF n = 0 THEN 0 ELSE s[n].total_engagement + SumEngagement(s, n - 1)

\* max(wave_phases, key=lambda p: p.total_engagement): the first maximum
PeakPhase(phases) ==
    LET best == CHOOSE k \in 1..Len(phases) :
                    /\ \A j \in 1..Len(phases) :
                         phases[j].total_engagement <= phases[k].total_engagement
                    /\ \A j \in 1..(k - 1) :
                         phases[j].total_engagement < phases[k].total_engagement
    IN  phases[best]

EmptyWave ==
    [phases |-> <<>>, total_exposure |-> 0, total_engagement |-> 0,
     peak_time |-> <<>>, peak_engagement |-> 0]

TrendIdle ==
    /\ now = 0
    /\ config = [emergence_duration_hours |-> 0]
    /\ active_trends = EmptyDict
    /\ trend_history = EmptyDict
    /\ feed_metrics = EmptyDict
    /\ nshocks = 0
    /\ last = [op |-> "none"]

WaveInit ==
    /\ StorageIdle
    /\ ConfigIdle
    /\ RunIdle
    /\ TrendIdle
    /\ SessionIdle
    /\ ViralIdle
    /\ ManagerIdle
    /\ wave_config \in WaveConfigs
    /\ wave_feed \in WaveFeeds
    /\ initial_exposure \in InitialExposures
    /\ wave_pc = "begin"
    /\ time_step = 0
    /\ current_exposure = 0
    /\ wave_phases = <<>>
    /\ wave = EmptyWave
    /\ quality_result = <<>>

\* entry of simulate_engagement_wave up to the loop; an unparsable
\* created_at raises and the except clause returns EngagementWave()
WaveBegin ==
    /\ wave_pc = "begin"
    /\ current_exposure' = initial_exposure
    /\ wave_pc' = IF wave_feed.created_at_ok THEN "loop" ELSE "done"
    /\ UNCHANGED <<wave_config, wave_feed, initial_exposure, time_step,
                   wave_phases, wave, quality_result>>
    /\ UNCHANGED outsideWave

\* one iteration of the loop of simulate_engagement_wave
WaveStep(jitter) ==
    /\ wave_pc = "loop"
    /\ time_step < NumSteps(wave_config)
    /\ LET engagement == _simulate_time_step_engagement(
                            wave_config, wave_feed, current_exposure,
                            time_step, jitter)
       IN  /\ wave_phases' = Append(wave_phases, engagement)
           /\ current_exposure' =
                 _update_exposure(wave_config, engagement, current_exposure)
    /\ time_step' = time_step + 1
    /\ UNCHANGED <<wave_config, wave_feed, initial_exposure, wave_pc, wave,
                   quality_result>>
    /\ UNCHANGED outsideWave

\* after the loop: the wave statistics and the return
WaveFinish ==
    /\ wave_pc = "loop"
    /\ time_step >= NumSteps(wave_config)
    /\ wave' = [phases |-> wave_phases,
                total_exposure |-> SumExposure(wave_phases, Len(wave_phases)),
                total_engagement |-> SumEngagement(wave_phases, Len(wave_phases)),
                peak_time |-> IF wave_phases # <<>>
                              THEN <<PeakPhase(wave_phases).timestamp>>
                              ELSE <<>>,
                peak_engagement |-> IF wave_phases # <<>>
                                    THEN PeakPhase(wave_phases).total_engagement
                                    ELSE 0]
    /\ wave_pc' = "done"
    /\ UNCHANGED <<wave_config, wave_feed, initial_exposure, time_step,
                   current_exposure, wave_phases, quality_result>>
    /\ UNCHANGED outsideWave

WaveNext ==
    \/ WaveBegin
    \/ \E jitter \in Jitters : WaveStep(jitter)
    \/ WaveFinish

SpecWave == WaveInit /\ [][WaveNext]_vars

\* ---------------------------------------------------------------------
\* EngagementSimulator._estimate_content_quality on its own
\* ---------------------------------------------------------------------

MaxEngagement == 30

\* public_metrics.impression_count values: None, 0 and positive counts
ImpressionCounts == {NoCount, <<0>>, <<100>>, <<1000>>, <<5000>>}

\* feeds that differ in what _estimate_content_quality reads
QualityFeeds ==
    { [id |-> "q",
       metrics |-> [like_count |-> likes, retweet_count |-> retweets,
                    quote_count |-> 0, reply_count |-> 0,
                    impression_count |-> impressions]] :
        likes \in 0..MaxEngagement, retweets \in {0, 1},
        impressions \in ImpressionCounts }

QualityInit ==
    /\ StorageIdle
    /\ ConfigIdle
    /\ RunIdle
    /\ TrendIdle
    /\ SessionIdle
    /\ ViralIdle
    /\ ManagerIdle
    /\ wave_config = [simulation_duration |-> 0]
    /\ wave_feed \in QualityFeeds
    /\ initial_exposure = 0
    /\ wave_pc = "idle"
    /\ time_step = 0
    /\ current_exposure = 0
    /\ wave_phases = <<>>
    /\ wave = [phases |-> <<>>]
    /\ quality_result = <<>>

\* one call of _estimate_content_quality(feed)
EstimateContentQuality ==
    /\ quality_result = <<>>
    /\ quality_result' = <<_estimate_content_quality(wave_feed)>>
    /\ UNCHANGED <<wave_config, wave_feed, initial_exposure, wave_pc, time_step,
                   current_exposure, wave_phases, wave>>
    /\ UNCHANGED outsideWave

QualityNext == EstimateContentQuality

SpecQuality == QualityInit /\ [][QualityNext]_vars


-----------------------------------------------------------------------------
(* UserSession of session_manager and UserSession of engagement_simulator *)

MaxItems == 101         \* at most this many items are consumed in a session

\* time_budget of the sessions, in minutes
TimeBudgets == {0, 2, 30}

\* view_time_seconds of the ContentConsumption records handed to
\* add_consumption
ViewTimes == {0, 5}

\* view_time_seconds that update_state of session_manager records
LegacyViewTime == 5

\* whether the engagement argument is an EngagementEvent (TRUE) or None
EngagementArgs == BOOLEAN

\* a new session_manager.UserSession; consumed_content and engagements are
\* kept as content_count, the sum of view_time_seconds and engagement_count;
\* fatigue_level is in hundredths
NewManagerSession(time_budget) ==
    [user_id |-> "u1", time_budget |-> time_budget, content_count |-> 0,
     view_seconds |-> 0, engagement_count |-> 0, fatigue_level |-> 0]

\* a new engagement_simulator.UserSession
NewSimulatorSession(time_budget) ==
    [user_id |-> "u1", time_budget |-> time_budget, content_count |-> 0,
     engagement_count |-> 0]

\* session_manager.UserSession.time_remaining, in sixtieths of a minute
time_remaining_Unclamped(s) == 60 * s.time_budget - s.view_seconds
time_remaining(s) == Max(0, 60 * s.time_budget - s.view_seconds)

\* engagement_simulator.UserSession._estimate_view_time
_estimate_view_time == 5

\* engagement_simulator.UserSession.time_remaining: the budget less 5.0 per
\* consumed feed
simulator_time_remaining(s) ==
    Max(0, s.time_budget - _estimate_view_time * s.content_count)

\* fatigue_level after add_consumption: min(1.0, fatigue_level + 0.01)
IncreasedFatigue_Wrapping(fatigue_level) ==
    IF fatigue_level + 1 > 100 THEN 0 ELSE fatigue_level + 1
IncreasedFatigue(fatigue_level) == Min(100, fatigue_level + 1)

\* session_manager.UserSession.add_consumption applied to session s
add_consumption(s, view_time_seconds, engagement) ==
    [s EXCEPT !.content_count = @ + 1,
              !.view_seconds = @ + view_time_seconds,
              !.engagement_count = IF engagement THEN @ + 1 ELSE @,
              !.fatigue_level = IncreasedFatigue(@)]

SessionInit ==
    /\ StorageIdle
    /\ ConfigIdle
    /\ RunIdle
    /\ TrendIdle
    /\ WaveIdle
    /\ ViralIdle
    /\ ManagerIdle
    /\ session_class \in {"session_manager", "engagement_simulator"}
    /\ \E time_budget \in TimeBudgets :
          session = IF session_class = "session_manager"
                    THEN NewManagerSession(time_budget)
                    ELSE NewSimulatorSession(time_budget)

\* session_manager.UserSession.add_consumption
AddConsumption(view_time_seconds, engagement) ==
    /\ session_class = "session_manager"
    /\ session.content_count < MaxItems
    /\ session' = add_consumption(session, view_time_seconds, engagement)
    /\ UNCHANGED session_class
    /\ UNCHANGED outsideSession

\* session_manager.UserSession.update_state
ManagerUpdateState(engagement) ==
    /\ session_class = "session_manager"
    /\ session.content_count < MaxItems
    /\ session' = add_consumption(session, LegacyViewTime, engagement)
    /\ UNCHANGED session_class
    /\ UNCHANGED outsideSession

\* engagement_simulator.UserSession.update_state
SimulatorUpdateState(engagement) ==
    /\ session_class = "engagement_simulator"
    /\ session.content_count < MaxItems
    /\ session' = [session EXCEPT
                      !.content_count = @ + 1,
                      !.engagement_count = IF engagement THEN @ + 1 ELSE @]
    /\ UNCHANGED session_class
    /\ UNCHANGED outsideSession

\* engagement_simulator.UserSession.add_engagement
AddEngagement ==
    /\ session_class = "engagement_simulator"
    /\ session.engagement_count < MaxItems
    /\ session' = [session EXCEPT !.engagement_count = @ + 1]
    /\ UNCHANGED session_class
    /\ UNCHANGED outsideSession

SessionNext ==
    \/ \E v \in ViewTimes, e \in EngagementArgs : AddConsumption(v, e)
    \/ \E e \in EngagementArgs : ManagerUpdateState(e)
    \/ \E e \in EngagementArgs : SimulatorUpdateState(e)
    \/ AddEngagement

SpecSession == SessionInit /\ [][SessionNext]_vars


-----------------------------------------------------------------------------
(* ViralityCalculator.calculate_viral_coefficient and predict_viral_potential *)

\* the feed arguments: public_metrics and the lower-cased tags of
\* entities.hashtags (empty when the feed has no entities or no hashtags)
ViralFeeds ==
    { [id |-> "v1", hashtags |-> {"ai"},
       metrics |-> [like_count |-> 2000, retweet_count |-> 500,
                    quote_count |-> 100, reply_count |-> 50,
                    impression_count |-> <<10000>>]],
      [id |-> "v2", hashtags |-> {},
       metrics |-> [like_count |-> 1, retweet_count |-> 0,
                    quote_count |-> 0, reply_count |-> 0,
                    impression_count |-> NoCount]],
      [id |-> "v3", hashtags |-> {"ai", "news"},
       metrics |-> [like_count |-> 41, retweet_count |-> 15,
                    quote_count |-> 0, reply_count |-> 9,
                    impression_count |-> <<0>>]],
      [id |-> "v4", hashtags |-> {"viral"},
       metrics |-> [like_count |-> 0, retweet_count |-> 0,
                    quote_count |-> 0, reply_count |-> 0,
                    impression_count |-> NoCount]],
      [id |-> "v5", hashtags |-> {"ai"},
       metrics |-> [like_count |-> 4, retweet_count |-> 3,
                    quote_count |-> 1, reply_count |-> 0,
                    impression_count |-> <<50>>]] }

\* author_follower_count of the contexts
FollowerCounts == {0, 1000, 10000000}

\* round(1000 * log10(n) / 7) for the follower counts above
Log10Sevenths(n) == IF n = 1000 THEN 429 ELSE 1000

\* network_density of the contexts, in 1/1000: 0.0, 0.5 (default), 1.0, and
\* the values 2.0 and -1.5 that the dataclass accepts as well
NetworkDensities == {0, 500, 1000, 2000, -1500}

ViralContexts ==
    [author_follower_count : FollowerCounts,
     author_verified : BOOLEAN,
     trending_hashtags : {{}, {"ai"}, {"ai", "news"}},
     time_of_day : {3, 8, 9},
     day_of_week : {0, 6},
     network_density : NetworkDensities]

\* ViralityCalculator._estimate_original_reach
_estimate_original_reach_EngagementOnly(feed) ==
    LET m == feed.metrics
        total_engagement == m.like_count + m.reply_count + m.retweet_count
                            + m.quote_count
    IN  Max(IF total_engagement > 0 THEN (100 * total_engagement) \div 3 ELSE 100,
            100)
_estimate_original_reach(feed) ==
    LET m == feed.metrics
        total_engagement == m.like_count + m.reply_count + m.retweet_count
                            + m.quote_count
        \* int(total_engagement / 0.03) if total_engagement > 0 else 100
        estimated_reach == IF total_engagement > 0
                           THEN (100 * total_engagement) \div 3 ELSE 100
    IN  IF m.impression_count # NoCount /\ m.impression_count[1] # 0
        THEN m.impression_count[1]
        ELSE Max(estimated_reach, 100)

\* ViralityCalculator.calculate_viral_coefficient: the float returned, as the
\* fraction num / den
calculate_viral_coefficient(feed) ==
    LET shares == feed.metrics.retweet_count + feed.metrics.quote_count
        original_reach == _estimate_original_reach(feed)
    IN  IF original_reach = 0
        THEN [num |-> 0, den |-> 1]
        ELSE [num |-> shares, den |-> original_reach]

\* ViralityCalculator._calculate_content_factor, in 1/1000
_calculate_content_factor(feed) ==
    LET m == feed.metrics
        total_engagement == m.like_count + m.retweet_count * 2
                            + m.quote_count * 2 + m.reply_count
        reach == _estimate_original_reach(feed)
        \* engagement_rate / 0.05
    IN  Min((20000 * total_engagement) \div Max(reach, 1), 1000)

\* ViralityCalculator._calculate_influence_factor, in 1/1000
_calculate_influence_factor(context) ==
    LET follower_factor == IF context.author_follower_count > 0
                           THEN Log10Sevenths(context.author_follower_count)
                           ELSE 0
        verified_bonus == IF context.author_verified THEN 200 ELSE 0
    IN  Min(follower_factor + verified_bonus, 1000)

\* ViralityCalculator._calculate_timing_factor, in 1/1000
_calculate_timing_factor(context) ==
    LET hour == context.time_of_day
        time_score == IF hour \in {9, 10, 11, 13, 14, 15, 19, 20, 21} THEN 1000
                      ELSE IF hour \in {8, 12, 16, 17, 18, 22} THEN 700
                      ELSE 400
        day_score == IF context.day_of_week < 5 THEN 800 ELSE 600
    IN  (time_score + day_score) \div 2

\* ViralityCalculator._calculate_trend_factor, in 1/1000
_calculate_trend_factor(feed, context) ==
    IF feed.hashtags = {} THEN 300
    ELSE LET trending == context.trending_hashtags
         IN  IF trending = {} THEN 500
             ELSE Min((1000 * Cardinality(feed.hashtags \cap trending))
                          \div Cardinality(trending) + 300,
                      1000)

\* ViralityCalculator.predict_viral_potential: probability in 1/100000,
\* confidence_score in 1/1000
predict_viral_potential(feed, context) ==
    LET content_factor == _calculate_content_factor(feed)
        influence_factor == _calculate_influence_factor(context)
        timing_factor == _calculate_timing_factor(context)
        trend_factor == _calculate_trend_factor(feed, context)
        network_factor == context.network_density
        probability == content_factor * 30 + influence_factor * 25
                       + timing_factor * 15 + trend_factor * 20
                       + network_factor * 10
        base_reach == IF context.author_follower_count # 0
                      THEN context.author_follower_count ELSE 1000
        \* int(base_reach * (1 + probability * 50))
        estimated_peak_reach ==
            TruncDiv(2 * base_reach + (base_reach \div 1000) * probability, 2)
        confidence ==
            Min((content_factor + influence_factor + trend_factor) \div 3, 950)
    IN  [probability |-> probability,
         estimated_peak_reach |-> estimated_peak_reach,
         confidence_score |-> confidence,
         contributing_factors |->
             [content_quality |-> content_factor,
              author_influence |-> influence_factor,
              timing |-> timing_factor,
              trend_alignment |-> trend_factor,
              network_density |-> network_factor]]

ViralInit ==
    /\ StorageIdle
    /\ ConfigIdle
    /\ RunIdle
    /\ TrendIdle
    /\ WaveIdle
    /\ SessionIdle
    /\ ManagerIdle
    /\ viral_feed \in ViralFeeds
    /\ viral_context \in ViralContexts
    /\ viral_result = [op |-> "none"]
    /\ engagement_timeline = <<>>

CalculateViralCoefficient ==
    /\ viral_feed.id # "none"
    /\ viral_result' = [op |-> "calculate_viral_coefficient",
                        result |-> calculate_viral_coefficient(viral_feed)]
    /\ UNCHANGED <<viral_feed, viral_context, engagement_timeline>>
    /\ UNCHANGED outsideViral

PredictViralPotential ==
    /\ viral_feed.id # "none"
    /\ viral_result' = [op |-> "predict_viral_potential",
                        result |-> predict_viral_potential(viral_feed,
                                                           viral_context)]
    /\ UNCHANGED <<viral_feed, viral_context, engagement_timeline>>
    /\ UNCHANGED outsideViral

ViralNext ==
    \/ CalculateViralCoefficient
    \/ PredictViralPotential

SpecViral == ViralInit /\ [][ViralNext]_vars


-----------------------------------------------------------------------------
(* ViralityCalculator on event timelines: track_viral_cascade,
   calculate_spread_velocity and calculate_complete_metrics.  Timestamps are
   whole hours, counted from the datetime.utcnow() of the call. *)

MaxEvents == 12         \* a timeline holds up to MaxEvents events

\* depth of the k-th event of a timeline, for four timelines shapes
DepthPattern(p, k) ==
    IF p = 1 THEN 0
    ELSE IF p = 2 THEN k % 3
    ELSE IF p = 3 THEN (IF k <= 11 THEN 2 ELSE 1)
    ELSE (IF k = 1 THEN 3 ELSE 0)

\* timestamp of the k-th event: ascending, descending, all equal, by fours
TimePattern(q, k) ==
    IF q = 1 THEN k - 20
    ELSE IF q = 2 THEN 0 - k
    ELSE IF q = 3 THEN -5
    ELSE (k \div 4) - 9

\* the engagement_timeline arguments (lists of EngagementEvent)
EventTimelines ==
    { [k \in 1..n |-> [user_id |-> k, depth |-> DepthPattern(p, k),
                       timestamp |-> TimePattern(q, k)]] :
        n \in 0..MaxEvents, p \in 1..4, q \in 1..4 }

\* the feeds: created ten hours ago, just now, ten hours ahead, and with a
\* created_at that datetime.fromisoformat rejects
MetricFeeds ==
    { [id |-> "m1", created_at_ok |-> TRUE, created_at |-> -10,
       metrics |-> [like_count |-> 41, retweet_count |-> 15, quote_count |-> 0,
                    reply_count |-> 9, impression_count |-> <<1000>>]],
      [id |-> "m2", created_at_ok |-> TRUE, created_at |-> 0,
       metrics |-> [like_count |-> 0, retweet_count |-> 0, quote_count |-> 0,
                    reply_count |-> 0, impression_count |-> NoCount]],
      [id |-> "m3", created_at_ok |-> TRUE, created_at |-> 10,
       metrics |-> [like_count |-> 50, retweet_count |-> 0, quote_count |-> 0,
                    reply_count |-> 0, impression_count |-> NoCount]],
      [id |-> "m4", created_at_ok |-> FALSE, created_at |-> 0,
       metrics |-> [like_count |-> 1, retweet_count |-> 1, quote_count |-> 0,
                    reply_count |-> 0, impression_count |-> <<0>>]] }

\* sorted(depth_groups.keys())
RECURSIVE SortedKeys(_)
SortedKeys(keys) ==
    IF keys = {} THEN <<>>
    ELSE LET least == CHOOSE d \in keys : \A e \in keys : d <= e
         IN  <<least>> \o SortedKeys(keys \ {least})

\* a grouping that puts an event into the groups of the deeper levels too
DepthGroup_UpToDepth(events, depth) ==
    SelectSeq(events, LAMBDA e : e.depth <= depth)

\* depth_groups[depth]: the events of one depth, in list order
DepthGroup(events, depth) == SelectSeq(events, LAMBDA e : e.depth = depth)

\* max_depth = max(max_depth, depth) over the first n events, from 0
RECURSIVE MaxDepthTo(_, _)
MaxDepthTo(events, n) ==
    IF n = 0 THEN 0 ELSE Max(MaxDepthTo(events, n - 1), events[n].depth)

\* ViralityCalculator.track_viral_cascade
track_viral_cascade(original_feed_id, engagement_events) ==
    LET depths == SortedKeys({engagement_events[k].depth :
                                 k \in DOMAIN engagement_events})
    IN  [root_feed_id |-> original_feed_id,
         total_nodes |-> Len(engagement_events),
         max_depth |-> MaxDepthTo(engagement_events, Len(engagement_events)),
         cascade_nodes |->
             [i \in DOMAIN depths |->
                LET events == DepthGroup(engagement_events, depths[i])
                IN  [depth |-> depths[i],
                     node_count |-> Len(events),
                     \* events[:10]
                     events |-> SubSeq(events, 1, Min(10, Len(events)))]],
         engagement_timeline |-> engagement_events]

\* the float 0.0, and a quotient of two whole numbers, as fractions
Zero == [num |-> 0, den |-> 1]
Quotient(n, d) == [num |-> n, den |-> d]

\* ViralityCalculator.calculate_spread_velocity, in events per hour; the except
\* clause returns 0.0
calculate_spread_velocity(feed, timeline) ==
    IF timeline = <<>>
    THEN IF ~feed.created_at_ok THEN Zero
         ELSE LET age_hours == 0 - feed.created_at
                  m == feed.metrics
                  total_engagement == m.like_count + m.retweet_count
                                      + m.quote_count + m.reply_count
              IN  IF age_hours = 0 THEN Zero
                  ELSE Quotient(total_engagement, age_hours)
    ELSE LET time_span == timeline[Len(timeline)].timestamp
                          - timeline[1].timestamp
         IN  IF time_span = 0 THEN Zero
             ELSE Quotient(Len(timeline), time_span)

\* the number of events of a timeline in the hour of its k-th event
HourCount(timeline, k) ==
    Cardinality({j \in DOMAIN timeline :
                    timeline[j].timestamp = timeline[k].timestamp})

\* max(hour_counts.keys(), key=...): the first hour, in order of appearance,
\* with the largest count
PeakHour(timeline) ==
    LET first == CHOOSE k \in DOMAIN timeline :
                    /\ \A j \in DOMAIN timeline :
                          HourCount(timeline, j) <= HourCount(timeline, k)
                    /\ \A j \in 1..(k - 1) :
                          HourCount(timeline, j) < HourCount(timeline, k)
    IN  timeline[first].timestamp

\* ViralityCalculator.calculate_complete_metrics; parsing created_at for the
\* estimated peak time raises, and the except clause raises again
calculate_complete_metrics(feed, timeline) ==
    IF timeline = <<>> /\ ~feed.created_at_ok
    THEN [raised |-> TRUE]
    ELSE [raised |-> FALSE,
          viral_coefficient |-> calculate_viral_coefficient(feed),
          spread_velocity |-> calculate_spread_velocity(feed, timeline),
          peak_engagement_time |->
              IF timeline # <<>> THEN PeakHour(timeline)
              ELSE feed.created_at + 4,
          \* max([e.depth for e in engagement_timeline], default=0)
          cascade_depth |->
              IF timeline = <<>> THEN 0
              ELSE SeqMax([k \in DOMAIN timeline |-> timeline[k].depth]),
          influence_reach |->
              track_viral_cascade(feed.id, timeline).total_nodes * 10]

MetricsInit ==
    /\ StorageIdle
    /\ ConfigIdle
    /\ RunIdle
    /\ TrendIdle
    /\ WaveIdle
    /\ SessionIdle
    /\ ManagerIdle
    /\ viral_feed \in MetricFeeds
    /\ viral_context = [author_followers |-> 0]
    /\ engagement_timeline \in EventTimelines
    /\ viral_result = [op |-> "none"]

TrackViralCascade ==
    /\ viral_result' = [op |-> "track_viral_cascade",
                        result |-> track_viral_cascade(viral_feed.id,
                                                       engagement_timeline)]
    /\ UNCHANGED <<viral_feed, viral_context, engagement_timeline>>
    /\ UNCHANGED outsideViral

CalculateSpreadVelocity ==
    /\ viral_result' = [op |-> "calculate_spread_velocity",
                        result |-> calculate_spread_velocity(
                                       viral_feed, engagement_timeline)]
    /\ UNCHANGED <<viral_feed, viral_context, engagement_timeline>>
    /\ UNCHANGED outsideViral

CalculateCompleteMetrics ==
    /\ viral_result' = [op |-> "calculate_complete_metrics",
                        result |-> calculate_complete_metrics(
                                       viral_feed, engagement_timeline)]
    /\ UNCHANGED <<viral_feed, viral_context, engagement_timeline>>
    /\ UNCHANGED outsideViral

MetricsNext ==
    \/ TrackViralCascade
    \/ CalculateSpreadVelocity
    \/ CalculateCompleteMetrics

SpecMetrics == MetricsInit /\ [][MetricsNext]_vars


-----------------------------------------------------------------------------
(* SessionManager: data *)

\* Times of the SessionManager are in milliseconds; a time_budget (minutes)
\* is held in thousandths of a minute, so that time_budget * 60 is in
\* milliseconds.  fatigue_level is in hundredths, relevance in thousandths.

MaxCalls == 3           \* calls made by the caller per behaviour

\* SessionConfig defaults
max_feed_view_time_seconds == 30
min_feed_view_time_seconds == 2
default_time_budget_minutes == 30

UserIds == {"u1"}

\* the session_params arguments of create_user_session: None, or a
\* SessionParams with a time_budget of 0 or of half a minute
NoParams == <<>>
SessionParamsArgs ==
    {NoParams,
     <<[time_budget |-> 0, user_interests |-> {}]>>,
     <<[time_budget |-> 500, user_interests |-> {"ai"}]>>}

\* minutes between session_start and the end_session call
ElapsedMinutes == {1}

\* the ContentConsumption records a caller hands to add_consumption
CallerConsumptions ==
    {[feed |-> "c", view_time_seconds |-> 2000, engagement |-> "like",
      relevance_score |-> 0]}

\* the feeds shown: word_count = len(feed.text.split()), words = the
\* lower-cased words of the text, hashtags = the lower-cased tags
ShownFeeds ==
    [a |-> [id |-> "a", word_count |-> 200, words |-> {"long", "read"},
            hashtags |-> {}],
     b |-> [id |-> "b", word_count |-> 50, words |-> {"ai", "news"},
            hashtags |-> {"ai"}],
     c |-> [id |-> "c", word_count |-> 3, words |-> {"hi"},
            hashtags |-> {"fun"}]]

\* the available_content arguments (lists of feed ids)
ContentLists == {<<>>, <<"b", "a">>, <<"c", "b", "b">>}

\* the ranking_function arguments: None, or a function given by its scores
NoRanking == <<>>
RankingFunctions == {NoRanking, <<[a |-> 3, b |-> 2, c |-> 2]>>}

\* what _simulate_engagement is let to return: None or an event type
EngagementDraws == {"none", "like"}

\* SessionManager._calculate_relevance, in 1/1000
_calculate_relevance(feed, s) ==
    IF s.user_interests = {} THEN 500
    ELSE LET hashtag_part ==
                 IF feed.hashtags # {}
                 THEN (600 * Cardinality(feed.hashtags \cap s.user_interests))
                          \div Cardinality(feed.hashtags)
                 ELSE 0
             keyword_part ==
                 IF feed.words # {}
                 THEN (400 * Cardinality(feed.words \cap s.user_interests))
                          \div Cardinality(feed.words)
                 ELSE 0
         IN  Min(hashtag_part + keyword_part, 1000)

\* view_prob of SessionManager._make_view_decision, in 1/1000:
\* 0.8 * (1 - fatigue_level * 0.5) + relevance * 0.3
ViewProbability(feed, s) ==
    (800 * (200 - s.fatigue_level)) \div 200
        + (3 * _calculate_relevance(feed, s)) \div 10

\* the will_view values random.random() < view_prob can give
ViewDecisions(feed, s) ==
    IF ViewProbability(feed, s) >= 1000 THEN {TRUE}
    ELSE IF ViewProbability(feed, s) <= 0 THEN {FALSE}
    ELSE BOOLEAN

\* SessionManager._calculate_view_time, in milliseconds
_calculate_view_time(feed, s) ==
    LET \* (word_count / 200) * 60 seconds
        base_time == feed.word_count * 300
        adjusted_time == (base_time * s.attention_span) \div 10
        final_time == (adjusted_time * (200 - s.fatigue_level)) \div 200
    IN  Max(min_feed_view_time_seconds * 1000,
            Min(final_time, max_feed_view_time_seconds * 1000))

\* UserSession(...) of session_manager, with its consumed_content kept as
\* the list of ContentConsumption records
NewUserSession(user_id, time_budget, user_interests) ==
    [user_id |-> user_id, time_budget |-> time_budget, attention_span |-> 10,
     user_interests |-> user_interests, consumed_content |-> <<>>,
     engagements |-> <<>>, fatigue_level |-> 0]

ContentConsumption(feed_id, view_time, engagement, relevance) ==
    [feed |-> feed_id, view_time_seconds |-> view_time,
     engagement |-> engagement, relevance_score |-> relevance]

\* UserSession.add_consumption on the list-keeping session
UserSession_add_consumption(s, consumption) ==
    [s EXCEPT !.consumed_content = Append(@, consumption),
              !.engagements = IF consumption.engagement # "none"
                              THEN Append(@, consumption.engagement) ELSE @,
              !.fatigue_level = IncreasedFatigue(@)]

\* sort(key=score, reverse=True): descending, equal scores in list order
RECURSIVE SortedByScore(_, _)
SortedByScore(content, score) ==
    IF content = <<>> THEN <<>>
    ELSE LET best == CHOOSE i \in 1..Len(content) :
                        /\ \A j \in 1..Len(content) :
                              score[content[j]] <= score[content[i]]
                        /\ \A j \in 1..(i - 1) :
                              score[content[j]] < score[content[i]]
             rest == [k \in 1..(Len(content) - 1) |->
                        IF k < best THEN content[k] ELSE content[k + 1]]
         IN  <<content[best]>> \o SortedByScore(rest, score)


-----------------------------------------------------------------------------
(* SessionManager: operations *)

\* a list a SessionResult holds as its consumption_log: a list of its own
\* (of = 0), or the consumed_content list object of session `of`
OwnList(items) == [of |-> 0, items |-> items]
ListOfSession(sid) == [of |-> sid, items |-> <<>>]

RECURSIVE SumViewTime(_, _)
SumViewTime(log, n) ==
    IF n = 0 THEN 0 ELSE log[n].view_time_seconds + SumViewTime(log, n - 1)

RECURSIVE SumRelevance(_, _)
SumRelevance(log, n) ==
    IF n = 0 THEN 0 ELSE log[n].relevance_score + SumRelevance(log, n - 1)

ManagerInit ==
    /\ StorageIdle
    /\ ConfigIdle
    /\ RunIdle
    /\ TrendIdle
    /\ WaveIdle
    /\ SessionIdle
    /\ ViralIdle
    /\ sessions = <<>>
    /\ active_sessions = [x \in {} |-> 0]
    /\ session_history = <<>>
    /\ sim = [pc |-> "none"]
    /\ ncalls = 0
    /\ mgr_last = [op |-> "none"]

\* SessionManager.create_user_session
CreateUserSession(user_id, session_params) ==
    /\ sim.pc = "none"
    /\ ncalls < MaxCalls
    /\ ncalls' = ncalls + 1
    /\ LET params == IF session_params = NoParams
                     THEN [time_budget |-> default_time_budget_minutes * 1000,
                           user_interests |-> {}]
                     ELSE session_params[1]
           s == NewUserSession(user_id, params.time_budget,
                               params.user_interests)
       IN  /\ sessions' = Append(sessions, s)
           /\ active_sessions' = Put(active_sessions, user_id, Len(sessions) + 1)
           /\ mgr_last' = [op |-> "none"]
    /\ UNCHANGED <<session_history, sim>>
    /\ UNCHANGED outsideManager

\* UserSession.add_consumption, called on a session the caller holds
SessionAddConsumption(sid, consumption) ==
    /\ sim.pc = "none"
    /\ sid \in 1..Len(sessions)
    /\ ncalls < MaxCalls
    /\ ncalls' = ncalls + 1
    /\ sessions' = [sessions EXCEPT
                       ![sid] = UserSession_add_consumption(@, consumption)]
    /\ mgr_last' = [op |-> "none"]
    /\ UNCHANGED <<active_sessions, session_history, sim>>
    /\ UNCHANGED outsideManager

\* UserSession.update_state, called on a session the caller holds
SessionUpdateState(sid, feed_id, engagement) ==
    /\ sim.pc = "none"
    /\ sid \in 1..Len(sessions)
    /\ ncalls < MaxCalls
    /\ ncalls' = ncalls + 1
    /\ sessions' = [sessions EXCEPT
                       ![sid] = UserSession_add_consumption(@,
                                   ContentConsumption(feed_id,
                                       LegacyViewTime * 1000, engagement, 0))]
    /\ mgr_last' = [op |-> "none"]
    /\ UNCHANGED <<active_sessions, session_history, sim>>
    /\ UNCHANGED outsideManager

\* simulate_content_consumption up to its loop
SimulateBegin(sid, available_content, ranking_function) ==
    /\ sim.pc = "none"
    /\ sid \in 1..Len(sessions)
    /\ ncalls < MaxCalls
    /\ ncalls' = ncalls + 1
    /\ sim' = [pc |-> "loop", session |-> sid,
               available_content |-> available_content,
               ranking_function |-> ranking_function,
               content_to_show |->
                   IF ranking_function # NoRanking
                   THEN SortedByScore(available_content, ranking_function[1])
                   ELSE available_content,
               index |-> 1,
               remaining_time |-> sessions[sid].time_budget * 60,
               consumption_log |-> <<>>]
    /\ mgr_last' = [op |-> "none"]
    /\ UNCHANGED <<sessions, active_sessions, session_history>>
    /\ UNCHANGED outsideManager

\* a loop without the break on remaining_time <= 0
SimulateStep_PastBudget(will_view, engagement) ==
    /\ sim.pc = "loop"
    /\ sim.index <= Len(sim.content_to_show)
    /\ LET s == sessions[sim.session]
           feed == ShownFeeds[sim.content_to_show[sim.index]]
           view_time == _calculate_view_time(feed, s)
           consumption == ContentConsumption(feed.id, view_time, engagement,
                                             _calculate_relevance(feed, s))
       IN  /\ will_view \in ViewDecisions(feed, s)
           /\ IF will_view
              THEN /\ sessions' = [sessions EXCEPT ![sim.session] =
                                      UserSession_add_consumption(@, consumption)]
                   /\ sim' = [sim EXCEPT
                                !.consumption_log = Append(@, consumption),
                                !.remaining_time = @ - view_time,
                                !.index = @ + 1]
              ELSE /\ engagement = "none"
                   /\ sim' = [sim EXCEPT !.index = @ + 1]
                   /\ UNCHANGED sessions
    /\ UNCHANGED <<active_sessions, session_history, ncalls, mgr_last>>
    /\ UNCHANGED outsideManager

\* one iteration of the loop over content_to_show that gets past the break
SimulateStep(will_view, engagement) ==
    /\ sim.pc = "loop"
    /\ sim.index <= Len(sim.content_to_show)
    /\ sim.remaining_time > 0
    /\ LET s == sessions[sim.session]
           feed == ShownFeeds[sim.content_to_show[sim.index]]
           view_time == _calculate_view_time(feed, s)
           consumption == ContentConsumption(feed.id, view_time, engagement,
                                             _calculate_relevance(feed, s))
       IN  /\ will_view \in ViewDecisions(feed, s)
           /\ IF will_view
              THEN /\ sessions' = [sessions EXCEPT ![sim.session] =
                                      UserSession_add_consumption(@, consumption)]
                   /\ sim' = [sim EXCEPT
                                !.consumption_log = Append(@, consumption),
                                !.remaining_time = @ - view_time,
                                !.index = @ + 1]
              ELSE /\ engagement = "none"
                   /\ sim' = [sim EXCEPT !.index = @ + 1]
                   /\ UNCHANGED sessions
    /\ UNCHANGED <<active_sessions, session_history, ncalls, mgr_last>>
    /\ UNCHANGED outsideManager

\* the end of simulate_content_consumption: the metrics, the SessionResult
\* and the return; a time_budget of 0 makes completion_rate divide by zero,
\* and the except clause returns an empty result that is not recorded
SimulateFinish ==
    /\ sim.pc = "loop"
    /\ sim.index > Len(sim.content_to_show) \/ sim.remaining_time <= 0
    /\ LET s == sessions[sim.session]
           log == sim.consumption_log
           spent == s.time_budget * 60 - sim.remaining_time
           metrics ==
               [avg_view_time |->
                    IF log # <<>> THEN SumViewTime(log, Len(log)) \div Len(log)
                    ELSE 0,
                avg_relevance |->
                    IF log # <<>> THEN SumRelevance(log, Len(log)) \div Len(log)
                    ELSE 0,
                completion_rate |-> (1000 * spent) \div (s.time_budget * 60),
                fatigue_level |-> s.fatigue_level]
           result == [session |-> sim.session, consumption_log |-> OwnList(log),
                      total_time_spent_minutes |-> spent, metrics |-> metrics]
           failed == [session |-> sim.session, consumption_log |-> OwnList(<<>>),
                      total_time_spent_minutes |-> 0, metrics |-> <<>>]
       IN  IF s.time_budget = 0
           THEN /\ mgr_last' = [op |-> "simulate_content_consumption",
                                result |-> failed, recorded |-> FALSE]
                /\ UNCHANGED session_history
           ELSE /\ mgr_last' = [op |-> "simulate_content_consumption",
                                result |-> result, recorded |-> TRUE]
                /\ session_history' = Append(session_history, result)
    /\ sim' = [pc |-> "none"]
    /\ UNCHANGED <<sessions, active_sessions, ncalls>>
    /\ UNCHANGED outsideManager

\* SessionManager.end_session
EndSession(user_id, elapsed) ==
    /\ sim.pc = "none"
    /\ ncalls < MaxCalls
    /\ ncalls' = ncalls + 1
    /\ IF user_id \notin DOMAIN active_sessions
       THEN /\ mgr_last' = [op |-> "end_session", result |-> <<>>]
            /\ UNCHANGED <<active_sessions, session_history>>
       ELSE LET sid == active_sessions[user_id]
                result == [session |-> sid,
                           consumption_log |-> ListOfSession(sid),
                           total_time_spent_minutes |-> elapsed,
                           metrics |-> <<>>]
            IN  /\ session_history' = Append(session_history, result)
                /\ active_sessions' = Del(active_sessions, user_id)
                /\ mgr_last' = [op |-> "end_session", result |-> <<result>>]
    /\ UNCHANGED <<sessions, sim>>
    /\ UNCHANGED outsideManager

ManagerNext ==
    \/ \E u \in UserIds, sp \in SessionParamsArgs : CreateUserSession(u, sp)
    \/ \E sid \in 1..Len(sessions), c \in CallerConsumptions :
          SessionAddConsumption(sid, c)
    \/ \E sid \in 1..Len(sessions) : SessionUpdateState(sid, "a", "none")
    \/ \E sid \in 1..Len(sessions), content \in ContentLists,
          rf \in RankingFunctions : SimulateBegin(sid, content, rf)
    \/ \E will_view \in BOOLEAN, e \in EngagementDraws :
          SimulateStep(will_view, e)
    \/ SimulateFinish
    \/ \E u \in UserIds, elapsed \in ElapsedMinutes : EndSession(u, elapsed)

SpecManager == ManagerInit /\ [][ManagerNext]_vars

\* simulate_content_consumption is sequential code that runs to its return:
\* once begun, its loop iterations and its ending are taken when they can be
SpecManagerFair ==
    /\ ManagerInit
    /\ [][ManagerNext]_vars
    /\ WF_vars(\E will_view \in BOOLEAN, e \in EngagementDraws :
                   SimulateStep(will_view, e))
    /\ WF_vars(SimulateFinish)


-----------------------------------------------------------------------------
(* EngagementSimulator.simulate_user_session_engagement *)

MaxFeeds == 3           \* feed_list holds up to MaxFeeds feeds

\* session_duration_minutes arguments
SessionDurations == {0, 1, 10, 12}

\* what _simulate_single_feed_engagement is let to return: None, or an
\* EngagementEvent of one of the four types
EventDraws == {"none", "like", "retweet", "quote", "reply"}

\* the keys of engagement_breakdown
BreakdownKeys == {"likes", "retweets", "quotes", "replies"}

\* engagement_event.event_type + "s"
PluralKey(event_type) ==
    IF event_type = "like" THEN "likes"
    ELSE IF event_type = "retweet" THEN "retweets"
    ELSE IF event_type = "quote" THEN "quotes"
    ELSE "replys"

\* engagement_simulator.UserSession.time_remaining of the session the run
\* keeps, with its consumed_content as a list
run_time_remaining(s) ==
    Max(0, s.time_budget - _estimate_view_time * Len(s.consumed_content))

\* the SessionEngagement of the except clause
FailedSessionEngagement(minutes) ==
    [total_views |-> 0, total_engagements |-> 0,
     engagement_rate |-> [num |-> 0, den |-> 1],
     session_duration_minutes |-> minutes, engagement_breakdown |-> <<>>]

RunInit ==
    /\ StorageIdle
    /\ ConfigIdle
    /\ TrendIdle
    /\ WaveIdle
    /\ SessionIdle
    /\ ViralIdle
    /\ ManagerIdle
    /\ \E n \in 0..MaxFeeds, minutes \in SessionDurations :
          engagement_run =
              [pc |-> "loop",
               feed_list |-> [i \in 1..n |-> i],
               session_duration_minutes |-> minutes,
               index |-> 1,
               session |-> [time_budget |-> minutes,
                            consumed_content |-> <<>>, engagements |-> <<>>],
               engagement_breakdown |-> [k \in BreakdownKeys |-> 0]]

\* one iteration of the loop over feed_list that gets past the break
RunStep(event) ==
    /\ engagement_run.pc = "loop"
    /\ engagement_run.index <= Len(engagement_run.feed_list)
    /\ run_time_remaining(engagement_run.session) > 0
    /\ LET r == engagement_run
           feed == r.feed_list[r.index]
           \* session.add_engagement(engagement_event)
           added == IF event # "none"
                    THEN Append(r.session.engagements, event)
                    ELSE r.session.engagements
       IN  IF event # "none" /\ PluralKey(event) \notin BreakdownKeys
           \* KeyError, caught by the except clause
           THEN engagement_run' =
                   [pc |-> "done", feed_list |-> r.feed_list,
                    result |->
                        FailedSessionEngagement(r.session_duration_minutes)]
           ELSE engagement_run' =
                   [r EXCEPT
                      !.index = @ + 1,
                      !.engagement_breakdown =
                          IF event # "none"
                          THEN [@ EXCEPT ![PluralKey(event)] = @ + 1]
                          ELSE @,
                      \* session.update_state(feed, engagement_event)
                      !.session.consumed_content = Append(@, feed),
                      !.session.engagements =
                          IF event # "none" THEN Append(added, event)
                          ELSE added]
    /\ UNCHANGED outsideRun

\* after the loop: the summary and the return
RunFinish ==
    /\ engagement_run.pc = "loop"
    /\ \/ engagement_run.index > Len(engagement_run.feed_list)
       \/ run_time_remaining(engagement_run.session) <= 0
    /\ LET r == engagement_run
           total_views == Len(r.session.consumed_content)
           total_engagements == Len(r.session.engagements)
       IN  engagement_run' =
               [pc |-> "done", feed_list |-> r.feed_list,
                session |-> r.session,
                result |->
                    [total_views |-> total_views,
                     total_engagements |-> total_engagements,
                     engagement_rate |->
                         IF total_views > 0
                         THEN [num |-> total_engagements, den |-> total_views]
                         ELSE [num |-> 0, den |-> 1],
                     session_duration_minutes |-> r.session_duration_minutes,
                     engagement_breakdown |-> r.engagement_breakdown]]
    /\ UNCHANGED outsideRun

RunNext ==
    \/ \E event \in EventDraws : RunStep(event)
    \/ RunFinish

SpecRun == RunInit /\ [][RunNext]_vars


-----------------------------------------------------------------------------
(* The configuration dataclasses TrendConfig, EngagementConfig and
   SessionConfig.  Durations in hours are in 1/HourUnits, rates and thresholds
   in thousandths, view times in seconds. *)

\* constructor arguments, in and out of range
PhaseDurationArgs == {-HourUnits, 0, 2 * HourUnits}
SimulationDurationArgs == {-1, 0, 72}
TimeStepArgs == {-HourUnits, 0, HourUnits}
RateArgs == {-100, 100, 1500}
ThresholdArgs == {-500, 700, 1200}
ViewTimeArgs == {1, 2, 30, 40}

\* the dataclass-generated __init__ stores its arguments as given; none of the
\* three classes defines __post_init__
TrendConfig(emergence, growth, peak, decline, tail) ==
    [class |-> "TrendConfig", raised |-> FALSE,
     emergence_duration_hours |-> emergence,
     growth_duration_hours |-> growth,
     peak_duration_hours |-> peak,
     decline_duration_hours |-> decline,
     tail_duration_hours |-> tail]

EngagementConfig(simulation_duration, viral_threshold, decay_rate, step) ==
    [class |-> "EngagementConfig", raised |-> FALSE,
     simulation_duration |-> simulation_duration,
     viral_threshold |-> viral_threshold,
     decay_rate |-> decay_rate,
     time_step_hours |-> step]

SessionConfig(max_view_time, min_view_time) ==
    [class |-> "SessionConfig", raised |-> FALSE,
     max_feed_view_time_seconds |-> max_view_time,
     min_feed_view_time_seconds |-> min_view_time]

ConfigInit ==
    /\ StorageIdle
    /\ ConfigIdle
    /\ RunIdle
    /\ TrendIdle
    /\ WaveIdle
    /\ SessionIdle
    /\ ViralIdle
    /\ ManagerIdle

ConstructTrendConfig ==
    /\ \E emergence, decline \in PhaseDurationArgs,
          growth \in {0, 6 * HourUnits} :
          constructed' = TrendConfig(emergence, growth, 4 * HourUnits, decline,
                                     48 * HourUnits)
    /\ UNCHANGED <<trendVars, last, waveVars, sessionVars, viralVars,
                   managerVars, runVars, storageVars>>

ConstructEngagementConfig ==
    /\ \E simulation_duration \in SimulationDurationArgs,
          viral_threshold \in ThresholdArgs, decay_rate \in RateArgs,
          step \in TimeStepArgs :
          constructed' = EngagementConfig(simulation_duration, viral_threshold,
                                          decay_rate, step)
    /\ UNCHANGED <<trendVars, last, waveVars, sessionVars, viralVars,
                   managerVars, runVars, storageVars>>

ConstructSessionConfig ==
    /\ \E max_view_time, min_view_time \in ViewTimeArgs :
          constructed' = SessionConfig(max_view_time, min_view_time)
    /\ UNCHANGED <<trendVars, last, waveVars, sessionVars, viralVars,
                   managerVars, runVars, storageVars>>

ConfigNext ==
    \/ ConstructTrendConfig
    \/ ConstructEngagementConfig
    \/ ConstructSessionConfig

SpecConfig == ConfigInit /\ [][ConfigNext]_vars


-----------------------------------------------------------------------------
(* SimulationFeedManager over the file storage of FeedManager.  The trend
   model and the session manager it owns are as constructed: no trend is
   active, no session exists. *)

\* the feed files the storage directory may hold, in the order glob lists them
FileNames == <<"feed-1", "feed-2", "feed-3">>

\* a file is absent, holds a feed, or holds what json.load rejects
FileStates == {"absent", "ok", "corrupt"}

\* listing the directory succeeds or raises
ListingStates == {"ok", "error"}

\* the feed a well-formed file holds
StoredFeed(i) ==
    [id |-> FileNames[i],
     text_contains |-> IF i = 2 THEN {"news"} ELSE {"ai"},
     hashtags |-> {}]

\* inject_trend_shock arguments
ShockTrends == {"ai", "news"}

\* get_viral_content arguments, the threshold in thousandths
ViralityThresholds == {0, 700}
NoLimit == <<>>
Limits == {NoLimit, <<1>>}

\* ViralFeed.from_feed(feed).calculate_virality_score() of a feed loaded from
\* storage: viral_coefficient is None
calculate_virality_score(feed) == 0

\* FeedManager.load_feed
load_feed(i) ==
    IF storage.files[i] = "corrupt"
    THEN [raised |-> "JSONDecodeError"]
    ELSE [raised |-> "none", value |-> StoredFeed(i)]

\* the files storage_dir.glob("feed-*.json") yields
GlobbedFiles == {i \in DOMAIN FileNames : storage.files[i] # "absent"}

\* the loop of load_all_feeds over the first n files: a feed that loads is
\* appended, an error of load_feed is printed and the file skipped
RECURSIVE LoadedFeeds(_)
LoadedFeeds(n) ==
    IF n = 0 THEN <<>>
    ELSE IF n \in GlobbedFiles /\ load_feed(n).raised = "none"
    THEN Append(LoadedFeeds(n - 1), load_feed(n).value)
    ELSE LoadedFeeds(n - 1)

\* FeedManager.load_all_feeds: errors is what the storage raised on the way
load_all_feeds ==
    IF storage.listing = "error"
    THEN [raised |-> "OSError", errors |-> {"OSError"}]
    ELSE [raised |-> "none",
          errors |-> {load_feed(i).raised : i \in GlobbedFiles} \ {"none"},
          value |-> LoadedFeeds(Len(FileNames))]

\* FeedManager.search_feeds(text_contains=...)
search_feeds(text_contains) ==
    LET loaded == load_all_feeds
    IN  IF loaded.raised # "none" THEN loaded
        ELSE [loaded EXCEPT
                !.value = SelectSeq(@, LAMBDA feed :
                                          text_contains \in feed.text_contains)]

\* the first limit elements of a list: viral_feeds[:limit]
Truncated(list, limit) ==
    IF limit = NoLimit \/ limit[1] = 0 THEN list
    ELSE SubSeq(list, 1, Min(limit[1], Len(list)))

StorageInit ==
    /\ ConfigIdle
    /\ RunIdle
    /\ TrendIdle
    /\ WaveIdle
    /\ SessionIdle
    /\ ViralIdle
    /\ ManagerIdle
    /\ storage \in [listing : ListingStates,
                    files : [DOMAIN FileNames -> FileStates]]
    /\ sfm_last = [op |-> "none"]
    /\ created_viral_feed = [id |-> "none"]

\* SimulationFeedManager.inject_trend_shock
InjectTrendShock(trend_name, intensity) ==
    /\ LET found == search_feeds(trend_name)
       IN  sfm_last' =
             IF found.raised # "none"
             \* logged and raised again
             THEN [op |-> "inject_trend_shock", raised |-> found.raised,
                   storage_errors |-> found.errors, storage_calls |-> 1]
             ELSE [op |-> "inject_trend_shock", raised |-> "none",
                   storage_errors |-> found.errors, storage_calls |-> 1,
                   result |->
                     [trend |-> trend_name, intensity |-> intensity,
                      affected_content |->
                         [k \in 1..Len(SelectSeq(found.value, LAMBDA feed :
                                        _is_trend_relevant(feed, trend_name)))
                            |-> SelectSeq(found.value, LAMBDA feed :
                                   _is_trend_relevant(feed, trend_name))[k].id],
                      momentum_boost |-> intensity * 1000]]
    /\ UNCHANGED <<storage, created_viral_feed, trendVars, last, waveVars,
                   sessionVars, viralVars, managerVars, runVars, configVars>>

\* SimulationFeedManager.get_viral_content
GetViralContent(virality_threshold, limit) ==
    /\ LET loaded == load_all_feeds
       IN  sfm_last' =
             IF loaded.raised # "none"
             \* the except clause: logged, [] returned
             THEN [op |-> "get_viral_content", raised |-> "none",
                   storage_errors |-> loaded.errors, storage_calls |-> 1,
                   result |-> <<>>]
             ELSE [op |-> "get_viral_content", raised |-> "none",
                   storage_errors |-> loaded.errors, storage_calls |-> 1,
                   result |->
                     Truncated(
                       SortedByScore(
                         SelectSeq(loaded.value, LAMBDA feed :
                            calculate_virality_score(feed)
                                >= virality_threshold),
                         [feed \in {StoredFeed(i) : i \in DOMAIN FileNames}
                             |-> calculate_virality_score(feed)]),
                       limit)]
    /\ UNCHANGED <<storage, created_viral_feed, trendVars, last, waveVars,
                   sessionVars, viralVars, managerVars, runVars, configVars>>

\* SimulationFeedManager.get_simulation_stats
GetSimulationStats ==
    /\ LET loaded == load_all_feeds
       IN  sfm_last' =
             IF loaded.raised # "none"
             THEN [op |-> "get_simulation_stats", raised |-> loaded.raised,
                   storage_errors |-> loaded.errors, storage_calls |-> 1]
             ELSE [op |-> "get_simulation_stats", raised |-> "none",
                   storage_errors |-> loaded.errors, storage_calls |-> 1,
                   result |->
                     [total_feeds |-> Len(loaded.value),
                      active_trends |-> Cardinality(DOMAIN active_trends),
                      active_sessions |-> Cardinality(DOMAIN active_sessions),
                      session_history |-> Len(session_history)]]
    /\ UNCHANGED <<storage, created_viral_feed, trendVars, last, waveVars,
                   sessionVars, viralVars, managerVars, runVars, configVars>>

StorageNext ==
    \/ \E trend_name \in ShockTrends, intensity \in {4} :
          InjectTrendShock(trend_name, intensity)
    \/ \E virality_threshold \in ViralityThresholds, limit \in Limits :
          GetViralContent(virality_threshold, limit)
    \/ GetSimulationStats

SpecStorage == StorageInit /\ [][StorageNext]_vars

\* ---------------------------------------------------------------------
\* ViralFeed and SimulationFeedManager.create_viral_feed
\* virality scores in 1/10000
\* ---------------------------------------------------------------------

\* an Optional field left at None
Unset == <<>>

\* viral_params / ViralFeed field values: viral_coefficient in 1/100,
\* spread_velocity in engagements per hour, cascade_depth in levels,
\* trend_alignment_score in 1/100
ViralCoefficients == {Unset, <<0>>, <<50>>, <<125>>, <<200>>, <<300>>}
SpreadVelocities == {Unset, <<0>>, <<-100>>, <<50>>, <<100>>, <<200>>}
CascadeDepths == {Unset, <<10>>, <<20>>}
TrendAlignments == {Unset, <<50>>}
\* virality_phase handed in viral_params: absent, or a phase name
PhaseParams == {Unset, <<"decline">>, <<"peak">>}

ViralMetricValues ==
    [viral_coefficient : ViralCoefficients,
     spread_velocity : SpreadVelocities,
     cascade_depth : CascadeDepths,
     trend_alignment_score : TrendAlignments]

\* ViralFeed.calculate_virality_score
ViralFeed_calculate_virality_score(feed) ==
    \* not self.viral_coefficient or not self.spread_velocity
    IF \/ feed.viral_coefficient \in {Unset, <<0>>}
       \/ feed.spread_velocity \in {Unset, <<0>>}
    THEN 0
    ELSE LET vc_normalized ==
                 IF feed.viral_coefficient[1] > 50
                 THEN Min(((feed.viral_coefficient[1] - 50) * 10000) \div 150,
                          10000)
                 ELSE 0
             sv_normalized == Min(feed.spread_velocity[1] * 100, 10000)
             cd_normalized ==
                 Min((IF feed.cascade_depth = Unset THEN 0
                      ELSE feed.cascade_depth[1]) * 1000, 10000)
             ta_normalized ==
                 IF feed.trend_alignment_score = Unset THEN 0
                 ELSE feed.trend_alignment_score[1] * 100
             score == (vc_normalized * 4 + sv_normalized * 3
                       + cd_normalized * 2 + ta_normalized) \div 10
         IN  Min(score, 10000)

\* the if / elif chain with the `< 0.4` test moved to the front
update_virality_phase_DeclineFirst(feed) ==
    LET score == ViralFeed_calculate_virality_score(feed)
    IN  [feed EXCEPT !.virality_phase =
            IF score < 4000 THEN "decline"
            ELSE IF score < 2000 THEN "emerging"
            ELSE IF score < 5000 THEN "growth"
            ELSE IF score < 8000 THEN "peak"
            ELSE "tail"]

\* ViralFeed.update_virality_phase: the feed after the call
update_virality_phase(feed) ==
    LET score == ViralFeed_calculate_virality_score(feed)
    IN  [feed EXCEPT !.virality_phase =
            IF score < 2000 THEN "emerging"
            ELSE IF score < 5000 THEN "growth"
            ELSE IF score < 8000 THEN "peak"
            ELSE IF score < 4000 THEN "decline"
            ELSE "tail"]

\* ViralFeed.from_feed(base_feed, **viral_params)
from_feed(viral_params, virality_phase) ==
    [id |-> "v",
     viral_coefficient |-> viral_params.viral_coefficient,
     spread_velocity |-> viral_params.spread_velocity,
     cascade_depth |-> viral_params.cascade_depth,
     trend_alignment_score |-> viral_params.trend_alignment_score,
     virality_phase |-> IF virality_phase = Unset THEN "emerging"
                        ELSE virality_phase[1]]

CreateInit ==
    /\ ConfigIdle
    /\ RunIdle
    /\ TrendIdle
    /\ WaveIdle
    /\ SessionIdle
    /\ ViralIdle
    /\ ManagerIdle
    /\ StorageIdle

\* SimulationFeedManager.create_viral_feed(text, author_id,
\* viral_params = ...)
CreateViralFeed(viral_params, virality_phase) ==
    /\ created_viral_feed' =
          update_virality_phase(from_feed(viral_params, virality_phase))
    /\ UNCHANGED <<storage, sfm_last, trendVars, last, waveVars, sessionVars,
                   viralVars, managerVars, runVars, configVars>>

\* the caller stores new metrics in the fields of the ViralFeed
SetViralMetrics(values) ==
    /\ created_viral_feed.id # "none"
    /\ created_viral_feed' =
          [created_viral_feed EXCEPT
              !.viral_coefficient = values.viral_coefficient,
              !.spread_velocity = values.spread_velocity,
              !.cascade_depth = values.cascade_depth,
              !.trend_alignment_score = values.trend_alignment_score]
    /\ UNCHANGED <<storage, sfm_last, trendVars, last, waveVars, sessionVars,
                   viralVars, managerVars, runVars, configVars>>

\* viral_feed.update_virality_phase() on the feed created
UpdateViralityPhase ==
    /\ created_viral_feed.id # "none"
    /\ created_viral_feed' = update_virality_phase(created_viral_feed)
    /\ UNCHANGED <<storage, sfm_last, trendVars, last, waveVars, sessionVars,
                   viralVars, managerVars, runVars, configVars>>

CreateNext ==
    \/ \E viral_params \in ViralMetricValues, virality_phase \in PhaseParams :
          CreateViralFeed(viral_params, virality_phase)
    \/ \E values \in ViralMetricValues : SetViralMetrics(values)
    \/ UpdateViralityPhase

SpecCreate == CreateInit /\ [][CreateNext]_vars


-----------------------------------------------------------------------------
(* Properties of the TrendDecayModel, checked under Spec *)

\* every lifecycle the model holds, in either registry
Lifecycles ==
    {active_trends[t] : t \in DOMAIN active_trends}
        \cup {trend_history[t] : t \in DOMAIN trend_history}

\* the query times of get_current_momentum
QueryTimes == (0 - 4) .. (MaxTime + 6)

\* the step is a call of apply_trend_shock
IsShockStep == nshocks' = nshocks + 1 /\ last'.op = "apply_trend_shock"

\* the curve of phase k of lifecycle l is not one model_trend_lifecycle
\* builds: a shock has scaled it
PhaseWasShocked(l, k) ==
    \A fl \in Fluctuations, m \in InitialMomenta :
        l.phases[k].momentum_curve
            # ModelPhases(config, m, l.start_time, fl)[k].momentum_curve

\* C1: when the trend has an active lifecycle and the moment of the shock
\* lies in a phase window, apply_trend_shock(trend, i, ...) multiplies every
\* momentum sample of the phase active at that moment (the first phase, in
\* lifecycle order, whose window contains it) by (1 + i) and leaves the
\* samples of every other phase of the lifecycle as they were.
C1_ShockScalesActivePhase ==
    [][ IsShockStep =>
          LET trend == last'.result.trend
              i == last'.result.intensity
          IN  (trend \in DOMAIN active_trends
               /\ ActivePhaseIndex(active_trends[trend], now) # 0)
              => LET k == ActivePhaseIndex(active_trends[trend], now)
                     old == active_trends[trend].phases
                     new == active_trends'[trend].phases
                 IN  /\ trend \in DOMAIN active_trends'
                     /\ Len(new) = Len(old)
                     /\ \A j \in 1..Len(old) :
                          IF j = k
                          THEN /\ Len(new[j].momentum_curve)
                                    = Len(old[j].momentum_curve)
                               /\ \A s \in 1..Len(old[j].momentum_curve) :
                                    new[j].momentum_curve[s] * IntensityDen
                                      = old[j].momentum_curve[s]
                                          * (IntensityDen + i)
                          ELSE new[j].momentum_curve = old[j].momentum_curve
      ]_vars

\* C1 witness: initial_momentum = 10, a shock of 0.8 has just hit during
\* Growth: the first Growth sample is 15 * 1.8 = 27, Emergence is untouched.
C1_Witness ==
    /\ last.op = "apply_trend_shock"
    /\ last.result.trend = "ai"
    /\ last.result.intensity = 4
    /\ "ai" \in DOMAIN active_trends
    /\ ActivePhaseIndex(active_trends["ai"], now) = 2
    /\ active_trends["ai"].phases[2].momentum_curve[1] = 27 * MomentumUnit
    /\ active_trends["ai"].phases[1].momentum_curve[1] = 10 * MomentumUnit

\* C2: archive_trend(trend) on an active trend removes it from active_trends
\* and puts the same lifecycle into trend_history; on a trend that is not
\* active (already archived, or never modeled) it changes neither registry.
C2_ArchiveMovesOnce ==
    [][ last'.op = "archive_trend" =>
          LET t == last'.trend
          IN  IF t \in DOMAIN active_trends
              THEN /\ t \notin DOMAIN active_trends'
                   /\ DOMAIN active_trends' = DOMAIN active_trends \ {t}
                   /\ \A u \in DOMAIN active_trends' :
                         active_trends'[u] = active_trends[u]
                   /\ DOMAIN trend_history' = DOMAIN trend_history \cup {t}
                   /\ trend_history'[t] = active_trends[t]
                   /\ \A u \in DOMAIN trend_history \ {t} :
                         trend_history'[u] = trend_history[u]
              ELSE /\ active_trends' = active_trends
                   /\ trend_history' = trend_history
      ]_vars

\* C2 witness: archive_trend("ai") has just run and the lifecycle is in
\* trend_history and no longer in active_trends.
C2_Witness ==
    /\ last.op = "archive_trend"
    /\ last.trend = "ai"
    /\ "ai" \in DOMAIN trend_history
    /\ "ai" \notin DOMAIN active_trends

\* C3 (as stated): in every lifecycle the five phases are Emergence, Growth,
\* Peak, Decline, Tail in this order, the first starts at the lifecycle's
\* start_time, each later one starts exactly at the end of the one before,
\* each ends at its start plus its configured duration, and no instant
\* belongs to two phase windows.
C3_PhasesContiguous ==
    \A l \in Lifecycles :
        /\ Len(l.phases) = 5
        /\ \A k \in 1..5 : l.phases[k].phase = PhaseOrder[k]
        /\ l.phases[1].start_time = l.start_time
        /\ \A k \in 2..5 : l.phases[k].start_time = l.phases[k - 1].end_time
        /\ \A k \in 1..5 :
             (l.phases[k].end_time - l.phases[k].start_time) * HourUnits
                = l.phases[k].duration_hours
        /\ \A t \in QueryTimes :
             Cardinality({k \in 1..5 : l.phases[k].start_time <= t
                                       /\ t < l.phases[k].end_time}) <= 1

\* C4: for every lifecycle and every time strictly after the end of its
\* Tail phase, get_current_momentum returns 0, shocked or not.
C4_MomentumZeroAfterEnd ==
    \A l \in Lifecycles : \A t \in QueryTimes :
        t > l.phases[Len(l.phases)].end_time => get_current_momentum(l, t) = 0

\* C4 witness: a lifecycle whose Tail curve a shock has scaled, the clock
\* strictly past the end of the Tail phase, and the momentum read there is 0.
C4_Witness ==
    \E l \in Lifecycles :
        /\ PhaseWasShocked(l, 5)
        /\ now > l.phases[5].end_time
        /\ get_current_momentum(l, now) = 0

-----------------------------------------------------------------------------
(* Properties of simulate_engagement_wave, checked under SpecWave *)

\* C5: in every EngagementWave that simulate_engagement_wave returns, the
\* exposure recorded in every step snapshot is at least the floor of 100,
\* for any initial_exposure and any decay_rate.
C5_SnapshotExposureAtLeastFloor ==
    wave_pc = "done" =>
        \A k \in 1..Len(wave.phases) : wave.phases[k].exposure >= ExposureFloor

\* the four per-type counts of a snapshot, added up
CountSum(p) == p.likes + p.retweets + p.quotes + p.replies

\* C6 as stated: in every step snapshot the four counts add up to the step's
\* total_engagement, and they are the 70% / 15% / 5% / 10% shares of it,
\* each rounded down.
C6_CountsSumToTotal ==
    \A k \in 1..Len(wave_phases) :
        LET p == wave_phases[k]
            t == p.total_engagement
        IN  /\ CountSum(p) = t
            /\ p.likes = (70 * t) \div 100
            /\ p.retweets = (15 * t) \div 100
            /\ p.quotes = (5 * t) \div 100
            /\ p.replies = (10 * t) \div 100

\* C6 amended: in every step snapshot the four counts add up to at most the
\* step's total_engagement and fall short of it by at most 3; retweets,
\* quotes and replies are the 15% / 5% / 10% shares rounded down, and likes
\* is the 70% share rounded down or one less than that.
C6_CountsWithinRounding ==
    \A k \in 1..Len(wave_phases) :
        LET p == wave_phases[k]
            t == p.total_engagement
        IN  /\ CountSum(p) <= t
            /\ t - CountSum(p) <= 3
            /\ p.retweets = (15 * t) \div 100
            /\ p.quotes = (5 * t) \div 100
            /\ p.replies = (10 * t) \div 100
            /\ p.likes \in {(70 * t) \div 100, (70 * t) \div 100 - 1}

\* a returned wave holding a snapshot whose counts fall short of its total,
\* and one whose 70% share is a whole number that likes misses by one
C6_Witness ==
    /\ wave_pc = "done"
    /\ \E k \in 1..Len(wave.phases) :
          CountSum(wave.phases[k]) < wave.phases[k].total_engagement
    /\ \E k \in 1..Len(wave.phases) :
          LET p == wave.phases[k]
          IN  /\ p.total_engagement > 0
              /\ p.total_engagement % 10 = 0
              /\ p.likes = (70 * p.total_engagement) \div 100 - 1

-----------------------------------------------------------------------------
(* Properties of the UserSession classes, checked under SpecSession *)

\* a step of add_consumption or update_state of a session_manager.UserSession
IsConsumptionStep ==
    /\ session_class = "session_manager"
    /\ session'.content_count = session.content_count + 1

\* C7 as stated: across any sequence of add_consumption and update_state
\* calls on a session_manager.UserSession, fatigue_level never decreases,
\* grows by 0.01 with every consumed item, and stays within [0, 1].
C7_FatigueGrowsPerItem ==
    [][IsConsumptionStep =>
          /\ session'.fatigue_level >= session.fatigue_level
          /\ session'.fatigue_level = session.fatigue_level + 1
          /\ session'.fatigue_level \in 0..100]_vars

\* C7 amended: across any sequence of add_consumption and update_state calls
\* on a session_manager.UserSession, fatigue_level never decreases and stays
\* within [0, 1]; it grows by 0.01 with every consumed item until it reaches
\* 1.0, and stays at 1.0 with every item after that.
C7_FatigueGrowsUntilSaturated ==
    [][IsConsumptionStep =>
          /\ session'.fatigue_level >= session.fatigue_level
          /\ session'.fatigue_level \in 0..100
          /\ session.fatigue_level < 100 =>
                session'.fatigue_level = session.fatigue_level + 1
          /\ session.fatigue_level = 100 => session'.fatigue_level = 100]_vars

\* a session that went on consuming after its fatigue reached 1.0
C7_Witness ==
    /\ session_class = "session_manager"
    /\ session.content_count > 100
    /\ session.fatigue_level = 100

\* C8: in every state a UserSession (of either class) reaches through
\* add_consumption / update_state calls with non-negative view times,
\* time_remaining is not negative and does not exceed time_budget.
C8_TimeRemainingWithinBudget ==
    /\ session_class = "session_manager" =>
          /\ time_remaining(session) >= 0
          /\ time_remaining(session) <= 60 * session.time_budget
    /\ session_class = "engagement_simulator" =>
          /\ simulator_time_remaining(session) >= 0
          /\ simulator_time_remaining(session) <= session.time_budget

\* a session_manager.UserSession with a positive budget that has viewed for
\* longer than the budget, so that the clamp at zero is what holds
C8_Witness ==
    /\ session_class = "session_manager"
    /\ session.time_budget > 0
    /\ session.view_seconds > 60 * session.time_budget
    /\ time_remaining(session) = 0

-----------------------------------------------------------------------------
(* Properties of the ViralityCalculator, checked under SpecViral *)

\* C9: for every feed with non-negative counts and every ViralContext, with
\* any network_density, the probability that predict_viral_potential returns
\* lies in [0, 1].
C9_ProbabilityInUnitInterval ==
    viral_result.op = "predict_viral_potential" =>
        /\ viral_result.result.probability >= 0
        /\ viral_result.result.probability <= 100000

\* C10: calculate_viral_coefficient returns (retweet_count + quote_count) /
\* reach, where reach is impression_count when that is present and not zero,
\* and otherwise total engagement / 0.03 rounded down, and at least 100.
C10_ViralCoefficient ==
    viral_result.op = "calculate_viral_coefficient" =>
        LET m == viral_feed.metrics
            total == m.like_count + m.retweet_count + m.quote_count
                     + m.reply_count
            present == m.impression_count # NoCount
            reach == IF present /\ m.impression_count[1] # 0
                     THEN m.impression_count[1]
                     ELSE IF (100 * total) \div 3 < 100 THEN 100
                          ELSE (100 * total) \div 3
            r == viral_result.result
        IN  /\ r.den > 0
            /\ r.num * reach = (m.retweet_count + m.quote_count) * r.den

\* the example of the claim: impression_count 10000, retweet_count 500 and
\* quote_count 100 give 0.06
C10_Witness ==
    /\ viral_result.op = "calculate_viral_coefficient"
    /\ viral_feed.metrics.impression_count = <<10000>>
    /\ viral_feed.metrics.retweet_count = 500
    /\ viral_feed.metrics.quote_count = 100
    /\ viral_result.result.num * 100 = 6 * viral_result.result.den

-----------------------------------------------------------------------------
(* Further properties of the TrendDecayModel *)

\* C11: for a trend modelled with initial momentum m > 0, every momentum
\* sample of every phase is non-negative in every reachable state: right
\* after model_trend_lifecycle and after any apply_trend_shock calls, with
\* any intensity.
C11_MomentumSamplesNonNegative ==
    \A l \in Lifecycles :
        \A k \in 1..Len(l.phases) :
            \A i \in 1..Len(l.phases[k].momentum_curve) :
                l.phases[k].momentum_curve[i] >= 0

\* C12: every TrendShock that apply_trend_shock returns has an intensity
\* within [0, 1], whatever shock_intensity was passed.
C12_ShockIntensityClamped ==
    last.op = "apply_trend_shock" =>
        /\ last.result.intensity >= 0
        /\ last.result.intensity <= IntensityDen

\* the trend is unknown to the model, or its last phase has ended
UnknownOrEnded(trend) ==
    \/ trend \notin DOMAIN active_trends
    \/ now >= active_trends[trend].phases[Len(PhaseOrder)].end_time

\* C13: calculate_trend_momentum returns 0 for a trend that is unknown to
\* the model (never modelled, or archived) or whose last phase has ended,
\* for every combination of mention_count and engagement_sum.
C13_UnknownTrendMomentumZero ==
    [][(last'.op = "calculate_trend_momentum" /\ UnknownOrEnded(last'.trend))
          => last'.result = 0]_vars

\* C14: once the end time of the Tail phase has passed, a trend that the
\* model is asked about is no longer in active_trends but in trend_history,
\* even if archive_trend was never called.
C14_EndedTrendLeavesActiveSet ==
    \A trend \in TrendIds :
        (/\ last.op \in {"get_trend_phase", "calculate_trend_momentum"}
         /\ last.trend = trend
         /\ trend \in DOMAIN active_trends)
            => now < active_trends[trend].phases[Len(PhaseOrder)].end_time

-----------------------------------------------------------------------------
(* Properties of the SessionManager, checked under SpecManager *)

\* the items of a consumption_log, read through the list object it is
ReadLog(log) ==
    IF log.of = 0 THEN log.items ELSE sessions[log.of].consumed_content

\* what a SessionResult reads as: its consumption log, its counts (as
\* to_dict reports them) and its metrics
ResultView(r) ==
    [consumption_log |-> ReadLog(r.consumption_log),
     content_viewed |-> Len(ReadLog(r.consumption_log)),
     engagements |-> Len(sessions[r.session].engagements),
     total_time_spent_minutes |-> r.total_time_spent_minutes,
     metrics |-> r.metrics]

\* C15: once a SessionResult has been produced, no later operation on the
\* manager or on the session changes its consumption log, its counts or its
\* metrics.
C15_SessionResultReadOnly ==
    [][\A i \in 1..Len(session_history) :
          /\ i <= Len(session_history')
          /\ ResultView(session_history[i])' = ResultView(session_history[i])]_vars

-----------------------------------------------------------------------------
(* Properties of simulate_user_session_engagement, checked under SpecRun *)

\* the number of 5-second items that fit in the given number of minutes
ItemsThatFit(minutes) == (minutes * 60) \div _estimate_view_time

\* C16: simulate_user_session_engagement evaluates the items of feed_list in
\* list order at 5 seconds each and stops early only when the budget of
\* session_duration_minutes minutes is used up: total_views is the smaller
\* of len(feed_list) and the number of 5-second items that fit the budget.
C16_ViewsUntilBudgetExhausted ==
    engagement_run.pc = "done" =>
        engagement_run.result.total_views =
            Min(Len(engagement_run.feed_list),
                ItemsThatFit(engagement_run.result.session_duration_minutes))

-----------------------------------------------------------------------------
(* Properties of the configuration dataclasses, checked under SpecConfig *)

\* the ranges a configuration's values are to lie in
InRange(c) ==
    IF c.class = "TrendConfig"
    THEN /\ c.emergence_duration_hours > 0
         /\ c.growth_duration_hours > 0
         /\ c.peak_duration_hours > 0
         /\ c.decline_duration_hours > 0
         /\ c.tail_duration_hours > 0
    ELSE IF c.class = "EngagementConfig"
    THEN /\ c.simulation_duration >= 0
         /\ c.time_step_hours > 0
         /\ c.decay_rate \in 0..1000
         /\ c.viral_threshold \in 0..1000
    ELSE c.min_feed_view_time_seconds <= c.max_feed_view_time_seconds

\* C17: constructing a TrendConfig, EngagementConfig or SessionConfig with an
\* out-of-range value (a phase duration that is negative or zero, a negative
\* simulation duration, a zero time step, a decay rate or threshold outside
\* [0,1], a minimum view time above the maximum) fails at construction: every
\* configuration object that exists has its values in range.
C17_OutOfRangeConfigRejected ==
    (constructed.class # "none" /\ ~constructed.raised) => InRange(constructed)

-----------------------------------------------------------------------------
(* Properties of SimulationFeedManager, checked under SpecStorage *)

\* C18: whenever the storage (load_all_feeds, search_feeds, load_feed) raises
\* an error during inject_trend_shock, get_viral_content or
\* get_simulation_stats, that same error reaches the caller of the operation:
\* it is not swallowed, not replaced by a default result, and the storage
\* call is not made again.
C18_StorageErrorsPropagate ==
    sfm_last.op # "none" =>
        /\ \A e \in sfm_last.storage_errors : sfm_last.raised = e
        /\ sfm_last.storage_calls = 1

-----------------------------------------------------------------------------
(* Properties of the heuristics on malformed input, checked under SpecWave *)

\* C19: for a feed whose creation timestamp cannot be parsed no heuristic
\* raises: calculate_time_decay returns 0.5, and simulate_engagement_wave
\* still produces its steps, one per time step of the configured duration
\* (the other heuristics, calculate_spread_velocity and
\* calculate_complete_metrics, return zero-filled defaults).
C19_UnparsableTimestampDegrades ==
    (wave_pc = "done" /\ ~wave_feed.created_at_ok) =>
        /\ \A age_hours \in 0..MaxDuration :
              calculate_time_decay(wave_feed, age_hours) = 500
        /\ Len(wave.phases) = NumSteps(wave_config)

-----------------------------------------------------------------------------
(* Properties of simulate_content_consumption, checked under SpecManagerFair *)

\* the feed ids of a consumption log
LogIds(log) == [k \in DOMAIN log |-> log[k].feed]

\* sub can be had from full by leaving elements out
RECURSIVE IsSubsequence(_, _)
IsSubsequence(sub, full) ==
    IF sub = <<>> THEN TRUE
    ELSE IF full = <<>> THEN FALSE
    ELSE IF Head(sub) = Head(full)
    THEN IsSubsequence(Tail(sub), Tail(full))
    ELSE IsSubsequence(sub, Tail(full))

\* how often x occurs in seq
Occurrences(seq, x) == Cardinality({k \in DOMAIN seq : seq[k] = x})

\* content_to_show is the shown order of the call's available_content
IsShownOrder(r) ==
    IF r.ranking_function = NoRanking
    THEN r.content_to_show = r.available_content
    ELSE /\ Len(r.content_to_show) = Len(r.available_content)
         /\ \A x \in DOMAIN ShownFeeds :
               Occurrences(r.content_to_show, x)
                   = Occurrences(r.available_content, x)
         /\ \A i, j \in DOMAIN r.content_to_show :
               i < j => r.ranking_function[1][r.content_to_show[i]]
                            >= r.ranking_function[1][r.content_to_show[j]]

\* while the call runs: the candidates are in the shown order and the log is
\* a subsequence of the candidates considered so far
LogFollowsShownOrder ==
    sim.pc = "loop" =>
        /\ IsShownOrder(sim)
        /\ sim.index \in 1..(Len(sim.content_to_show) + 1)
        /\ IsSubsequence(LogIds(sim.consumption_log),
                         SubSeq(sim.content_to_show, 1, sim.index - 1))

\* a step of the call: the next candidate, and only it, is considered, and
\* none is once remaining_time <= 0; the result holds the log
ConsidersEachOnce ==
    sim.pc = "loop" =>
        /\ sim'.pc = "loop" =>
              /\ sim.remaining_time > 0
              /\ sim'.index = sim.index + 1
              /\ sim'.content_to_show = sim.content_to_show
              /\ \/ sim'.consumption_log = sim.consumption_log
                 \/ /\ Len(sim'.consumption_log) = Len(sim.consumption_log) + 1
                    /\ SubSeq(sim'.consumption_log, 1, Len(sim.consumption_log))
                          = sim.consumption_log
                    /\ sim'.consumption_log[Len(sim'.consumption_log)].feed
                          = sim.content_to_show[sim.index]
        /\ sim'.pc = "none" =>
              /\ sim.index > Len(sim.content_to_show) \/ sim.remaining_time <= 0
              /\ mgr_last'.op = "simulate_content_consumption"
              /\ mgr_last'.recorded =>
                    mgr_last'.result.consumption_log.items = sim.consumption_log

\* C20: simulate_content_consumption always terminates; it considers the
\* candidates in the order shown (descending ranking score when a ranking
\* function is given, otherwise list order), each at most once, and records
\* no consumption for a candidate that comes after remaining time became
\* <= 0, so that the consumption log is an order-preserving subsequence of
\* the shown list.
C20_ConsumptionTerminatesInOrder ==
    /\ []LogFollowsShownOrder
    /\ [][ConsidersEachOnce]_vars
    /\ (sim.pc = "loop") ~> (sim.pc = "none")

\* a ranked call whose budget ran out before the end of the list, after a
\* consumption was recorded
C20_Witness ==
    /\ sim.pc = "loop"
    /\ sim.ranking_function # NoRanking
    /\ sim.content_to_show # sim.available_content
    /\ sim.remaining_time <= 0
    /\ sim.index <= Len(sim.content_to_show)
    /\ sim.consumption_log # <<>>

-----------------------------------------------------------------------------
(* Further properties of simulate_engagement_wave, checked under SpecWave *)

-----------------------------------------------------------------------------
(* Properties of the ViralityCalculator on timelines, checked under
   SpecMetrics *)

\* node_count added up over the first n cascade nodes
RECURSIVE NodeCountSum(_, _)
NodeCountSum(nodes, n) ==
    IF n = 0 THEN 0 ELSE nodes[n].node_count + NodeCountSum(nodes, n - 1)

\* the positions of the events of one depth in the timeline
PositionsAtDepth(depth) ==
    {k \in DOMAIN engagement_timeline : engagement_timeline[k].depth = depth}

\* C22: for every event list given to track_viral_cascade, total_nodes is the
\* number of events and the sum of node_count over the cascade nodes; there
\* is exactly one cascade node per distinct depth, in ascending depth order;
\* each node's sampled event list holds at most 10 events, the first ones of
\* that depth in timeline order; and max_depth is the largest event depth
\* (0 for an empty list).
C22_CascadeGroupsByDepth ==
    viral_result.op = "track_viral_cascade" =>
        LET c == viral_result.result
            nodes == c.cascade_nodes
            events == engagement_timeline
        IN  /\ c.total_nodes = Len(events)
            /\ c.total_nodes = NodeCountSum(nodes, Len(nodes))
            /\ {nodes[i].depth : i \in DOMAIN nodes}
                  = {events[k].depth : k \in DOMAIN events}
            /\ \A i, j \in DOMAIN nodes :
                  i < j => nodes[i].depth < nodes[j].depth
            /\ \A i \in DOMAIN nodes :
                  LET at == PositionsAtDepth(nodes[i].depth)
                      sample == nodes[i].events
                  IN  /\ nodes[i].node_count = Cardinality(at)
                      /\ Len(sample) = Min(10, Cardinality(at))
                      /\ \A j \in DOMAIN sample :
                            /\ sample[j].user_id \in at
                            /\ sample[j] = events[sample[j].user_id]
                            \* the j-th sampled event is the j-th of its depth
                            /\ Cardinality({k \in at : k <= sample[j].user_id})
                                  = j
            /\ c.max_depth = IF events = <<>> THEN 0
                             ELSE SeqMax([k \in DOMAIN events |->
                                             events[k].depth])

\* a cascade of a timeline that starts at the deeper of two levels and has
\* more than 10 events at it
C22_Witness ==
    /\ viral_result.op = "track_viral_cascade"
    /\ Len(viral_result.result.cascade_nodes) = 2
    /\ engagement_timeline[1].depth = viral_result.result.cascade_nodes[2].depth
    /\ viral_result.result.cascade_nodes[2].node_count > 10
    /\ Len(viral_result.result.cascade_nodes[2].events) = 10

\* a fraction is not below zero
NonNegative(q) == (q.num >= 0 /\ q.den > 0) \/ (q.num <= 0 /\ q.den < 0)

\* C28: every ViralityMetrics bundle returned by calculate_complete_metrics
\* has viral_coefficient >= 0 and spread_velocity >= 0, for every feed with
\* non-negative metric counts and every event timeline, whatever the order of
\* the events' timestamps in the list and whatever the feed's creation time.
C28_MetricsNonNegative ==
    (viral_result.op = "calculate_complete_metrics"
        /\ ~viral_result.result.raised) =>
        /\ NonNegative(viral_result.result.viral_coefficient)
        /\ NonNegative(viral_result.result.spread_velocity)

-----------------------------------------------------------------------------
(* Further properties of the TrendDecayModel, checked under Spec *)

\* C23: no trend id is ever in both registries at once: after any sequence of
\* model_trend_lifecycle, apply_trend_shock and archive_trend calls the key
\* sets of active_trends and trend_history are disjoint.
C23_RegistriesDisjoint ==
    DOMAIN active_trends \cap DOMAIN trend_history = {}

\* C27: in every reachable state each lifecycle's peak_momentum is the
\* largest momentum sample over all of its phases, also after any number of
\* apply_trend_shock calls.
C27_PeakMomentumIsMaximum ==
    \A l \in Lifecycles :
        l.peak_momentum =
            SeqMax([k \in 1..Len(l.phases) |-> SeqMax(l.phases[k].momentum_curve)])

-----------------------------------------------------------------------------
(* Further properties of simulate_user_session_engagement, checked under
   SpecRun *)

\* the counts of an engagement_breakdown added up ({} adds up to 0)
BreakdownSum(b) ==
    IF b = <<>> THEN 0 ELSE b.likes + b.retweets + b.quotes + b.replies

\* C24: in every SessionEngagement returned by
\* simulate_user_session_engagement, for every sequence of per-item outcomes
\* (no engagement, like, retweet, quote, reply), total_engagements is the
\* number of items the user engaged with, which is the sum of the
\* engagement_breakdown counts, and is at most total_views.
C24_EngagementsCountedOnce ==
    engagement_run.pc = "done" =>
        LET r == engagement_run.result
        IN  /\ r.total_engagements = BreakdownSum(r.engagement_breakdown)
            /\ r.total_engagements <= r.total_views
            /\ r.engagement_rate.num <= r.engagement_rate.den

-----------------------------------------------------------------------------
(* Further properties of the SessionManager, checked under SpecManager *)

\* C25: in every SessionResult returned by simulate_content_consumption for
\* a session with a positive time budget, the time used does not exceed the
\* budget: total_time_spent_minutes <= time_budget, and
\* metrics.completion_rate lies in [0,1].
C25_TimeUsedWithinBudget ==
    (/\ mgr_last.op = "simulate_content_consumption"
     /\ sessions[mgr_last.result.session].time_budget > 0) =>
        /\ mgr_last.result.total_time_spent_minutes
              <= sessions[mgr_last.result.session].time_budget * 60
        /\ mgr_last.result.metrics.completion_rate \in 0..1000

\* C26: for any sequence of create_user_session, simulate_content_consumption
\* and end_session calls, session_history holds at most one SessionResult
\* per created session, and a session that has a result in session_history
\* is no longer in active_sessions.
C26_OneResultPerEndedSession ==
    /\ \A i, j \in DOMAIN session_history :
          session_history[i].session = session_history[j].session => i = j
    /\ \A i \in DOMAIN session_history :
          \A u \in DOMAIN active_sessions :
              active_sessions[u] # session_history[i].session

\* the engagement rate of the feed as _estimate_content_quality computes
\* it: total engagement over impressions, 1000 when the count is None or 0
EngagementRate(feed) ==
    LET m == feed.metrics
    IN  [num |-> m.like_count + m.retweet_count + m.quote_count + m.reply_count,
         den |-> IF m.impression_count # NoCount /\ m.impression_count[1] # 0
                 THEN m.impression_count[1] ELSE 1000]

\* C29: the content-quality multiplier lies in [0.5, 2.0] for every feed
\* and is exactly 1.0 for a feed whose engagement rate is 2%
C29_QualityOneAtTwoPercent ==
    quality_result # <<>> =>
        /\ quality_result[1] >= 500
        /\ quality_result[1] <= 2000
        /\ (100 * EngagementRate(wave_feed).num
                = 2 * EngagementRate(wave_feed).den
             => quality_result[1] = 1000)

\* the phase the thresholds 0.2, 0.5 and 0.8 give a virality score
PhaseOfScore(score) ==
    IF score < 2000 THEN "emerging"
    ELSE IF score < 5000 THEN "growth"
    ELSE IF score < 8000 THEN "peak"
    ELSE "tail"

\* C30: a ViralFeed that create_viral_feed returned never has the phase
\* "decline", and every change of its phase sets it to the phase of its
\* virality score: emerging below 0.2, growth below 0.5, peak below 0.8,
\* tail from 0.8 on
C30_DeclineNeverAssigned ==
    /\ [](created_viral_feed.id # "none"
            => created_viral_feed.virality_phase # "decline")
    /\ [][(/\ created_viral_feed'.id # "none"
           /\ \/ created_viral_feed.id = "none"
              \/ created_viral_feed'.virality_phase
                    # created_viral_feed.virality_phase)
          => created_viral_feed'.virality_phase
                = PhaseOfScore(
                    ViralFeed_calculate_virality_score(created_viral_feed'))
         ]_vars

\* a feed whose score lies in [0.2, 0.4), the range the `< 0.4` test
\* names, has been given the phase growth
C30_Witness ==
    /\ created_viral_feed.id # "none"
    /\ ViralFeed_calculate_virality_score(created_viral_feed) >= 2000
    /\ ViralFeed_calculate_virality_score(created_viral_feed) < 4000
    /\ created_viral_feed.virality_phase = "growth"

====
